---- MODULE Spec2Model ----
(***************************************************************************)
(* The connection-pooled request/response engine of pulsar's asynchronous  *)
(* client: Client, ConnectionPool and the response consumers they serve    *)
(* (src/pulsar/async/clients.py, src/pulsar/apps/http/__init__.py).        *)
(***************************************************************************)
EXTENDS Integers, FiniteSets, Sequences, TLC

\* ------------------------------------------------------------- bounds
\* Response consumers (requests) that can ever be built.
MaxResps == 2
\* The max_connections the client is configured with (0 would mean no ceiling).
MaxConnections == 1

\* ------------------------------------------------------------- constants
\* Client.max_reconnect
max_reconnect == 1

\* Every request constructs at most one connection.
Conns == 1..MaxResps
Resps == 1..MaxResps
\* The endpoint keys requests are made for: keys matter only up to equality.
Keys == {1, 2}
\* Pool identities: the mapping holds at most one pool per key.
Pools == 1..Cardinality(Keys)
None == 0

\* The value of the Connection header of a response whose headers are complete.
ConnectionHeaders == {"keep-alive", "close", "absent"}
\* The exception a lost connection is reported with: a socket.timeout or
\* socket.error ("socket"), or anything else, None included ("other").
Excs == {"socket", "other"}
\* Where a call made by Client._response raises synchronously.
Faults == {"none", "set_consumer", "create_connection", "start"}

VARIABLES
    connection_pools,   \* Client.connection_pools: key -> pool (None: no entry)
    pool_max,           \* pool -> its max_connections
    available,          \* pool -> ConnectionPool._available_connections
    concurrent,         \* pool -> ConnectionProducer._concurrent_connections
    conn,               \* connection -> its transport state, consumer, pool
    resp,               \* response consumer -> its state
    closed,             \* Client._closed
    finish,             \* the client's one time event `finish` has fired
    close_wait,         \* connections the close deferred still waits for
    close_timer,        \* the close deferred's timeout is armed
    raised,             \* an exception escaped Client.response to the caller
    reconnects,         \* consumers _reconnect was called or scheduled for
    lag,                \* a trial of Client.reconnect_time_lag
    redir,              \* the responses of a request followed by again()
    hdrs,               \* the headers a ProxyResponse passes downstream
    tunnel,             \* a request served by the proxy server and its two legs
    proxy,              \* the HttpClient's proxy settings and its last request
    http,               \* the parsers and events of an HttpClient's consumers
    threads,            \* threads inside the locked sections of client and pool
    enc,                \* a request descriptor and the bytes encoded from it
    shut                \* the calls of close() and abort() made on a client

\* The state of the client engine.
client_vars == <<connection_pools, pool_max, available, concurrent, conn, resp,
                 closed, finish, close_wait, close_timer, raised, reconnects>>
\* The state of the trials of the engine's pure functions and of the components
\* around it: each is at rest while the engine runs.
aux == <<lag, redir, hdrs, tunnel, proxy, http, threads, enc, shut>>

vars == <<connection_pools, pool_max, available, concurrent, conn, resp,
          closed, finish, close_wait, close_timer, raised, reconnects, aux>>

\* ------------------------------------------------------------- state record
\* The handlers below are written as functions from a state to a state.
State ==
    [pools |-> connection_pools, pmax |-> pool_max, av |-> available,
     co |-> concurrent, conn |-> conn, resp |-> resp, closed |-> closed,
     finish |-> finish, wait |-> close_wait, timer |-> close_timer,
     raised |-> raised, reconnects |-> reconnects]

Commit(t) ==
    /\ connection_pools' = t.pools
    /\ pool_max' = t.pmax
    /\ available' = t.av
    /\ concurrent' = t.co
    /\ conn' = t.conn
    /\ resp' = t.resp
    /\ closed' = t.closed
    /\ finish' = t.finish
    /\ close_wait' = t.wait
    /\ close_timer' = t.timer
    /\ raised' = t.raised
    /\ reconnects' = t.reconnects

FreeConn == [st |-> "free", consumer |-> None, pool |-> None, closes |-> 0,
             exc |-> "none"]
FreeResp == [st |-> "none", key |-> None, conn |-> None, hdr |-> "none",
             retries |-> 0]

\* No trial of reconnect_time_lag is under way.
LagIdle == [pc |-> "idle"]

\* The client as constructed.
ClientInit ==
    /\ connection_pools = [k \in Keys |-> None]
    /\ pool_max = [p \in Pools |-> 0]
    /\ available = [p \in Pools |-> {}]
    /\ concurrent = [p \in Pools |-> {}]
    /\ conn = [c \in Conns |-> FreeConn]
    /\ resp = [r \in Resps |-> FreeResp]
    /\ closed = FALSE
    /\ finish = FALSE
    /\ close_wait = {}
    /\ close_timer = FALSE
    /\ raised = FALSE
    /\ reconnects = {}

\* No request with a redirect policy is under way.
RedirIdle == [pc |-> "idle"]

\* No response is being passed downstream.
HdrsIdle == [pc |-> "idle"]

\* The proxy server serves no request.
TunnelIdle == [pc |-> "idle"]

\* The client is used as constructed by pulsar.Client, without HttpClient's
\* proxy settings.
ProxyIdle == [pc |-> "idle"]

\* No HttpClient consumer is followed at the level of its parser.
HttpIdle == [pc |-> "idle"]

\* No thread is followed statement by statement.
ThreadsIdle == [pc |-> "idle"]

\* No request descriptor is being encoded.
EncIdle == [pc |-> "idle"]

\* The client is closed by Client.close alone, once.
ShutIdle == [pc |-> "idle"]

Init ==
    /\ ClientInit
    /\ lag = LagIdle
    /\ redir = RedirIdle
    /\ hdrs = HdrsIdle
    /\ tunnel = TunnelIdle
    /\ proxy = ProxyIdle
    /\ http = HttpIdle
    /\ threads = ThreadsIdle
    /\ enc = EncIdle
    /\ shut = ShutIdle

\* ------------------------------------------------------------- helpers
Min(S) == CHOOSE x \in S : \A y \in S : x <= y

UnusedConns(s) == {c \in Conns : s.conn[c].st = "free"}
UnusedResps(s) == {r \in Resps : s.resp[r].st = "none"}
\* A pool identity no pool was built with: a pool taken out of the mapping is
\* still the pool of its connections, and a pool built later is another object.
UnusedPools(s) ==
    {p \in Pools : s.pmax[p] = 0 /\ \A k \in Keys : s.pools[k] # p}

\* Connection.sock: the transport's socket, None without a transport or once
\* the transport is closed.
has_sock(s, c) == s.conn[c].st \in {"open", "stale"}

\* pulsar.utils.internet.is_socket_closed: True for no socket and for a socket
\* the peer has closed.
is_socket_closed(s, c) == s.conn[c].st # "open"

\* A response's state once finished.
Finished == {"done", "failed"}
has_finished(s, r) == s.resp[r].st \in Finished

\* HttpResponse.headers: the parsed headers, None until the parser has them.
headers(s, r) == s.resp[r].hdr

\* SocketTransport.close: the socket is given up at once, connection_lost
\* follows from the event loop.
transport_close(s, c) ==
    [s EXCEPT !.conn[c].st = "closing",
              !.conn[c].closes = s.conn[c].closes + 1]

RECURSIVE close_all(_, _)
close_all(s, S) ==
    IF S = {} THEN s
    ELSE LET c == Min(S) IN close_all(transport_close(s, c), S \ {c})

\* ------------------------------------------------------------- ConnectionPool
\* Faulty variant: any response with headers lets its connection be reused.
can_reuse_any_headers(s, c, r) ==
    r # None /\ headers(s, r) # "none"

\* HttpClient.can_reuse_connection: only a response whose headers carry
\* Connection: keep-alive lets its connection be reused.
can_reuse_connection(s, c, r) ==
    IF r # None /\ headers(s, r) # "none"
    THEN headers(s, r) = "keep-alive"
    ELSE FALSE

\* Faulty variant: the connection is not discarded from the concurrent set.
release_keeps_concurrent(s, p, c, r) ==
    IF headers(s, r) = "keep-alive"
    THEN [s EXCEPT !.av[p] = @ \cup {c}]
    ELSE s

\* ConnectionPool.release_connection
release_connection(s, p, c, r) ==
    LET s1 == [s EXCEPT !.co[p] = @ \ {c}]
    IN IF can_reuse_connection(s1, c, r)
       THEN [s1 EXCEPT !.av[p] = @ \cup {c}]
       ELSE s1

\* ConnectionPool._remove_connection
_remove_connection(s, p, c) ==
    [s EXCEPT !.co[p] = @ \ {c}, !.av[p] = @ \ {c}]

\* Faulty variant: the socket test is inverted for open sockets, so no available
\* connection is ever taken for healthy.
pop_loop_never_healthy(s, p) ==
    {[connection |-> None, popped |-> s.av[p]]}

\* The pop loop of get_or_create_connection. set.pop() takes an arbitrary
\* element: the loop ends at a connection whose socket is open, having popped
\* any of the closed ones before it, or it empties the set (KeyError).
pop_loop(s, p) ==
    LET healthy == {c \in s.av[p] : ~is_socket_closed(s, c)}
        dead == s.av[p] \ healthy
    IN IF healthy = {}
       THEN {[connection |-> None, popped |-> dead]}
       ELSE {[connection |-> h, popped |-> S] : h \in healthy, S \in SUBSET dead}

\* Faulty variant: `and sock` is dropped, every popped connection is closed again.
stale_all_popped(s, popped) == popped

\* `if closed and sock: stale_connections.append(connection)`
stale_connections(s, popped) == {c \in popped : has_sock(s, c)}

\* ConnectionProducer.new_connection: refuses past the pool's ceiling, else
\* constructs a connection (no transport yet) and counts it as concurrent.
\* bound: the model has no connection identity left.
new_connection(s, p) ==
    IF s.pmax[p] # 0 /\ Cardinality(s.co[p]) >= s.pmax[p]
    THEN [s |-> s, connection |-> None, exc |-> TRUE, bound |-> FALSE]
    ELSE IF UnusedConns(s) = {}
    THEN [s |-> s, connection |-> None, exc |-> FALSE, bound |-> TRUE]
    ELSE LET c == Min(UnusedConns(s))
         IN [s |-> [s EXCEPT !.conn[c] = [FreeConn EXCEPT !.st = "new", !.pool = p],
                             !.co[p] = @ \cup {c}],
             connection |-> c, exc |-> FALSE, bound |-> FALSE]

\* Faulty variant: a connection taken from the available set is handed out
\* without being added to the concurrent set.
get_or_create_skips_concurrent(s, p) ==
    { LET s1 == [s EXCEPT !.av[p] = @ \ (o.popped \cup {o.connection})]
          s2 == close_all(s1, stale_connections(s1, o.popped))
      IN IF o.connection = None
         THEN new_connection(s2, p)
         ELSE [s |-> s2, connection |-> o.connection, exc |-> FALSE, bound |-> FALSE]
      : o \in pop_loop(s, p) }

\* ConnectionPool.get_or_create_connection: the results it can give.
get_or_create_connection(s, p) ==
    { LET s1 == [s EXCEPT !.av[p] = @ \ (o.popped \cup {o.connection}),
                          !.co[p] = IF o.connection = None THEN @
                                    ELSE @ \cup {o.connection}]
          s2 == close_all(s1, stale_connections(s1, o.popped))
      IN IF o.connection = None
         THEN new_connection(s2, p)
         ELSE [s |-> s2, connection |-> o.connection, exc |-> FALSE, bound |-> FALSE]
      : o \in pop_loop(s, p) }

\* ------------------------------------------------------------- Client
\* Faulty variant: the consumer stays attached to the released connection.
release_keeps_consumer(s, r) ==
    LET c == s.resp[r].conn
    IN IF c = None THEN s
       ELSE LET p == s.pools[s.resp[r].key]
            IN IF p = None THEN s ELSE release_connection(s, p, c, r)

\* release_response_connection, the post_request callback of every consumer.
release_response_connection(s, r) ==
    LET c == s.resp[r].conn
    IN IF c = None THEN s
       ELSE LET s1 == [s EXCEPT !.conn[c].consumer = None]
                p == s1.pools[s1.resp[r].key]
            IN IF p = None THEN s1 ELSE release_connection(s1, p, c, r)

\* ProtocolConsumer.finished: the consumer is done (st: "done" or "failed") and
\* its post_request event fires.
finished(s, r, st) ==
    release_response_connection([s EXCEPT !.resp[r].st = st], r)

\* Client.remove_pool, run by one thread: the entry that holds the pool is
\* popped; when no entry holds it the loop runs to its end and `key` is left
\* at the last key the dictionary gave, whichever that is, and that entry is
\* popped; only with an empty mapping is nothing popped.
remove_pool(s, p) ==
    LET held == {k \in Keys : s.pools[k] = p}
        mapped == {k \in Keys : s.pools[k] # None}
    IN IF held # {} THEN {[s EXCEPT !.pools[k] = None] : k \in held}
       ELSE IF mapped # {} THEN {[s EXCEPT !.pools[k] = None] : k \in mapped}
       ELSE {s}

\* Faulty variant: the pool is built without the client's max_connections.
new_pool_unbounded(s, k) ==
    LET p == Min(UnusedPools(s))
    IN [s EXCEPT !.pools[k] = p, !.pmax[p] = 0]

\* The pool Client.get_connection builds for a key that has none.
new_pool(s, k) ==
    LET p == Min(UnusedPools(s))
    IN [s EXCEPT !.pools[k] = p, !.pmax[p] = MaxConnections]

\* Client.get_connection
get_connection(s, k) ==
    LET s1 == IF s.pools[k] = None THEN new_pool(s, k) ELSE s
    IN get_or_create_connection(s1, s1.pools[k])

\* Faulty variant: the exception is not caught and leaves Client.response.
except_propagates(s, r) == [s EXCEPT !.raised = TRUE]

\* `except Exception: response.finished(sys.exc_info())` of Client._response
except_Exception(s, r) == finished(s, r, "failed")

\* Client._response with a new connection required: the states it can end in.
\* fault names the call that raises, if any.
_response(s, r, k, fault) ==
    { IF g.exc THEN except_Exception(g.s, r)
      ELSE IF fault = "set_consumer" THEN except_Exception(g.s, r)
      ELSE LET c == g.connection
               s1 == [g.s EXCEPT !.conn[c].consumer = r, !.resp[r].conn = c]
           IN IF s1.conn[c].st = "new"
              THEN IF fault = "create_connection" THEN except_Exception(s1, r)
                   ELSE [s1 EXCEPT !.conn[c].st = "connecting",
                                   !.resp[r].st = "waiting"]
              ELSE IF fault = "start" THEN except_Exception(s1, r)
                   ELSE [s1 EXCEPT !.resp[r].st = "started"]
      : g \in {x \in get_connection(s, k) : ~x.bound} }

\* Client.response: build the consumer and dispatch it. The consumer knows the
\* key of its request from here on (release_response_connection reads
\* response.request.key).
response(s, k, fault) ==
    LET r == Min(UnusedResps(s))
        s1 == [s EXCEPT !.resp[r] = [FreeResp EXCEPT !.st = "built", !.key = k]]
    IN _response(s1, r, k, fault)

\* ------------------------------------------------------------- actions
\* A caller issues a request for key k.
Request(k, fault) ==
    /\ UnusedResps(State) # {}
    /\ \E t \in response(State, k, fault) : Commit(t)
    /\ UNCHANGED aux

\* The transport of a connecting connection is established: the connection_made
\* event fires and Request._connection_made starts the waiting consumer.
_connection_made(s, c) ==
    LET r == s.conn[c].consumer
        s1 == [s EXCEPT !.conn[c].st = "open"]
    IN IF r = None THEN s1 ELSE [s1 EXCEPT !.resp[r].st = "started"]

ConnectionMade(c) ==
    /\ conn[c].st = "connecting"
    /\ Commit(_connection_made(State, c))
    /\ UNCHANGED aux

\* The connect attempt fails: the errback Client._response added to
\* create_connection finishes the consumer with the failure.
connect_errback(s, c) ==
    LET r == s.conn[c].consumer
        s1 == [s EXCEPT !.conn[c].st = "closed"]
    IN IF r = None THEN s1 ELSE finished(s1, r, "failed")

ConnectFailed(c) ==
    /\ conn[c].st = "connecting"
    /\ Commit(connect_errback(State, c))
    /\ UNCHANGED aux

\* What a chunk of response bytes completes in the parser: the headers only,
\* the headers and the message at once, or the message after its headers.
Chunks == {"headers", "message", "body_end"}

\* Faulty variant: the connection is released as soon as the headers are in,
\* whether or not the message is complete.
_continue_releases_at_headers(s, r, message_complete) ==
    IF ~has_finished(s, r) /\ message_complete
    THEN finished(s, r, "done")
    ELSE release_response_connection(s, r)

\* HttpResponse._continue, the callback of the on_headers event.
_continue(s, r, message_complete) ==
    IF ~has_finished(s, r) /\ message_complete
    THEN finished(s, r, "done")
    ELSE s

\* HttpResponse.data_received for a chunk the parser consumes whole: h is the
\* Connection header the chunk's headers carry.
data_received(s, r, chunk, h) ==
    LET on_headers_done == s.resp[r].st \in {"headers", "complete"}
        headers_complete == on_headers_done \/ chunk \in {"headers", "message"}
        message_complete == chunk \in {"message", "body_end"}
        parsed == IF message_complete THEN "complete" ELSE "headers"
    IN IF headers_complete
       THEN IF ~on_headers_done
            THEN _continue([s EXCEPT !.resp[r].st = parsed, !.resp[r].hdr = h],
                           r, message_complete)
            ELSE [s EXCEPT !.resp[r].st = parsed]
       ELSE s

DataReceived(c, chunk, h) ==
    /\ conn[c].st = "open"
    /\ conn[c].consumer # None
    /\ \/ resp[conn[c].consumer].st = "started" /\ chunk \in {"headers", "message"}
       \/ resp[conn[c].consumer].st = "headers" /\ chunk = "body_end"
    /\ Commit(data_received(State, conn[c].consumer, chunk, h))
    /\ UNCHANGED aux

\* The peer closes the socket of an idle connection; the event loop has not
\* reported it yet.
PeerClosed(c) ==
    /\ conn[c].st = "open"
    /\ conn[c].consumer = None
    /\ conn' = [conn EXCEPT ![c].st = "stale"]
    /\ UNCHANGED <<connection_pools, pool_max, available, concurrent, resp,
                   closed, finish, close_wait, close_timer, raised, reconnects,
                   aux>>

\* is_failure(exc, socket.timeout, socket.error)
is_failure(exc) == exc = "socket"

\* Faulty variant: the consumer is detached before the failure is looked at, and no
\* reconnection follows.
_try_reconnect_detaches(s, c, exc) ==
    [s EXCEPT !.conn[c].consumer = None]

\* Faulty variant: `connection` is bound to the lost connection and the test of
\* the failure is dropped: any loss restarts an attached consumer.
_try_reconnect_any_loss(s, c, exc) ==
    LET r == s.conn[c].consumer
    IN IF r = None THEN s
       ELSE [s EXCEPT !.conn[c].consumer = None,
                      !.reconnects = @ \cup {r}]

\* ConnectionPool._try_reconnect, the connection_lost callback the pool binds
\* to each connection it constructs. Its body reads the name `connection`,
\* which is neither a parameter nor a global of the module: for a timeout or a
\* socket error the callback ends with a NameError before it looks at the
\* consumer, and for any other exception it returns at once. Either way the
\* consumer stays attached and _reconnect is neither called nor scheduled:
\* the lines after the read of `connection` (the consumer's can_reconnect,
\* the detaching, call_later and _reconnect) are never reached. The event
\* handler keeps a callback's exception to itself.
_try_reconnect(s, c, exc) ==
    IF is_failure(exc)
    THEN s
    ELSE s

\* The close deferred of Client.close hears that connection c is lost; when it
\* was the last one awaited the deferred fires the `finish` event.
close_heard(s, c) ==
    IF c \in s.wait
    THEN IF s.wait = {c}
         THEN [s EXCEPT !.wait = {}, !.finish = TRUE, !.timer = FALSE]
         ELSE [s EXCEPT !.wait = @ \ {c}]
    ELSE s

\* Connection.connection_lost: the connection_lost event fires (the pool's
\* _remove_connection and _try_reconnect), then a consumer still attached is
\* finished with the failure.
connection_lost(s, c, exc) ==
    LET torn == IF s.conn[c].st = "closing" THEN 0 ELSE 1
        s1 == [s EXCEPT !.conn[c].st = "closed", !.conn[c].exc = exc,
                        !.conn[c].closes = @ + torn]
        s2 == _remove_connection(s1, s1.conn[c].pool, c)
        s3 == _try_reconnect(s2, c, exc)
        r == s3.conn[c].consumer
        s4 == IF r # None /\ ~has_finished(s3, r)
              THEN finished(s3, r, "failed")
              ELSE s3
    IN close_heard(s4, c)

ConnectionLost(c, exc) ==
    /\ \/ conn[c].st \in {"open", "stale"}
       \/ conn[c].st = "closing" /\ exc = "other"
    /\ Commit(connection_lost(State, c, exc))
    /\ UNCHANGED aux

\* ConnectionProducer.close_connections for every pool of the mapping: the
\* transport of each connection the pools hold is closed.
PooledConns(s) ==
    {c \in Conns : \E k \in Keys :
        s.pools[k] # None /\ c \in s.av[s.pools[k]] \cup s.co[s.pools[k]]}

close_connections(s) ==
    close_all(s, {c \in PooledConns(s) : has_sock(s, c)})

\* Faulty variant: no timeout is set on the close deferred.
close_without_timeout(s) ==
    IF ~s.closed
    THEN LET s1 == close_connections([s EXCEPT !.closed = TRUE])
             awaited == {c \in PooledConns(s1) : s1.conn[c].st = "closing"}
         IN IF awaited = {}
            THEN [s1 EXCEPT !.finish = TRUE]
            ELSE [s1 EXCEPT !.wait = awaited]
    ELSE s

\* Faulty variant: close() does not look at `closed`.
close_ignores_closed(s) ==
    LET s1 == close_connections([s EXCEPT !.closed = TRUE])
        awaited == {c \in PooledConns(s1) : s1.conn[c].st = "closing"}
    IN IF awaited = {}
       THEN [s1 EXCEPT !.finish = TRUE]
       ELSE [s1 EXCEPT !.wait = awaited, !.timer = TRUE]

\* Client.close
close(s) ==
    IF ~s.closed
    THEN LET s1 == close_connections([s EXCEPT !.closed = TRUE])
             awaited == {c \in PooledConns(s1) : s1.conn[c].st = "closing"}
         IN IF awaited = {}
            THEN [s1 EXCEPT !.finish = TRUE]
            ELSE [s1 EXCEPT !.wait = awaited, !.timer = TRUE]
    ELSE s

Close ==
    /\ ~closed
    /\ Commit(close(State))
    /\ UNCHANGED aux

\* The timeout Client.close sets on the close deferred expires.
set_timeout_expired(s) ==
    [s EXCEPT !.finish = TRUE, !.timer = FALSE, !.wait = {}]

CloseTimeout ==
    /\ close_timer
    /\ Commit(set_timeout_expired(State))
    /\ UNCHANGED aux

Next ==
    \/ \E k \in Keys, fault \in Faults : Request(k, fault)
    \/ \E c \in Conns : ConnectionMade(c)
    \/ \E c \in Conns : ConnectFailed(c)
    \/ \E c \in Conns, chunk \in Chunks, h \in ConnectionHeaders :
          DataReceived(c, chunk, h)
    \/ \E c \in Conns : PeerClosed(c)
    \/ \E c \in Conns, exc \in Excs : ConnectionLost(c, exc)
    \/ Close
    \/ CloseTimeout

Spec == Init /\ [][Next]_vars

\* The event loop runs the timers it holds: an armed close timeout expires.
FairSpec == Spec /\ WF_vars(CloseTimeout)

\* ------------------------------------------------------------- claims
\* Steps of the engine the claims speak about.
\* Response r is built and dispatched by this step.
Dispatched(r) == resp[r].st = "none" /\ resp'[r].st # "none"
\* Response r finishes in this step.
Finishes(r) == ~has_finished(State, r) /\ resp'[r].st \in Finished
\* Connection c is constructed by this step.
Constructed(c) == conn[c].st = "free" /\ conn'[c].st # "free"

\* C1: in every reachable state no connection is in both the available set and
\* the concurrent set of a pool.
C1_PoolExclusivity ==
    \A p \in Pools : available[p] \cap concurrent[p] = {}

\* A connection released by a finished keep-alive response sits in the
\* available set while another pool holds a connection in use.
C1_Witness ==
    \E r \in Resps, p \in Pools, q \in Pools :
        /\ resp[r].st = "done"
        /\ resp[r].conn \in available[p]
        /\ concurrent[q] # {}

\* C2: the concurrent set of a pool never holds more connections than the
\* max_connections the client is configured with.
C2_CeilingRespect ==
    \A p \in Pools : Cardinality(concurrent[p]) <= MaxConnections

\* A pool is at its ceiling and a request for its key was refused a connection.
C2_Witness ==
    \E r \in Resps :
        /\ resp[r].st = "failed"
        /\ resp[r].conn = None
        /\ connection_pools[resp[r].key] # None
        /\ Cardinality(concurrent[connection_pools[resp[r].key]]) = MaxConnections

\* C3: whenever a response finishes and its connection is released to the pool
\* of its key, the connection is not in the concurrent set afterwards, and it is
\* in the available set if and only if the response headers carried
\* Connection: keep-alive.
C3_ReuseCorrectness ==
    [][\A r \in Resps :
          (Finishes(r) /\ resp'[r].conn # None
                       /\ connection_pools'[resp'[r].key] # None)
          => LET c == resp'[r].conn
                 p == connection_pools'[resp'[r].key]
             IN /\ c \notin concurrent'[p]
                /\ c \in available'[p] <=> resp'[r].hdr = "keep-alive"]_vars

\* One connection was released after keep-alive and is available, another was
\* released after Connection: close and is not.
C3_Witness ==
    \E r1 \in Resps, r2 \in Resps :
        /\ resp[r1].st = "done" /\ resp[r1].hdr = "keep-alive"
        /\ resp[r1].conn \in available[connection_pools[resp[r1].key]]
        /\ resp[r2].st = "done" /\ resp[r2].hdr = "close"
        /\ resp[r2].conn \notin available[connection_pools[resp[r2].key]]

\* C4: a request acquiring from a pool whose available set is not empty and
\* holds only connections with closed sockets gets a newly constructed
\* connection, never one of the stale ones; the available set is empty
\* afterwards and the transport of every stale connection has been closed
\* exactly once.
C4_StaleEviction ==
    [][\A r \in Resps :
          LET p == connection_pools[resp'[r].key]
          IN (/\ Dispatched(r)
              /\ p # None
              /\ available[p] # {}
              /\ \A c \in available[p] : is_socket_closed(State, c))
             => /\ Cardinality({c \in Conns : Constructed(c)}) = 1
                /\ \A c \in Conns : Constructed(c) => conn'[c].pool = p
                /\ resp'[r].conn # None => Constructed(resp'[r].conn)
                /\ available'[p] = {}
                /\ \A c \in available[p] : conn'[c].closes = 1]_vars

\* A stale connection was evicted by an acquire (its transport is closing,
\* closed once, while the client is not closed) and the request got a
\* connection of the same pool.
C4_Witness ==
    \E r \in Resps, c \in Conns :
        /\ ~closed
        /\ conn[c].st = "closing" /\ conn[c].closes = 1
        /\ resp[r].conn # None /\ resp[r].conn # c
        /\ conn[resp[r].conn].pool = conn[c].pool
        /\ available[conn[c].pool] = {}

C6_NoRequestAfterClose ==
    [][closed =>
          \A r \in Resps :
              Dispatched(r) => /\ resp'[r].conn = None
                               /\ resp'[r].st \notin {"waiting", "started"}
                               /\ \A c \in Conns : ~Constructed(c)]_vars

\* C7: after Client.close the `finish` event eventually fires, by the expiry
\* of the close timeout at the latest, even if a connection never finishes
\* closing.
C7_CloseFinishes == closed ~> finish

\* The `finish` event has fired although a connection is still closing.
C7_Witness ==
    /\ closed /\ finish
    /\ \E c \in Conns : conn[c].st = "closing"

\* C8: an exception raised while a request is dispatched never leaves
\* Client.response, and no consumer is left built but neither dispatched nor
\* finished: it ends as a failure result of the consumer.
C8_DispatchErrorsContained ==
    /\ ~raised
    /\ \A r \in Resps : resp[r].st # "built"

\* A consumer finished as failed because the connect could not be initiated:
\* its connection was constructed and never got a transport.
C8_Witness ==
    \E r \in Resps :
        /\ resp[r].st = "failed"
        /\ resp[r].conn # None
        /\ conn[resp[r].conn].st = "new"
        /\ ~raised

\* Retries the consumer's reconnect policy has left.
retries_left(r) == max_reconnect - resp[r].retries

\* C9: no consumer stays pending on a connection lost with a failure that is
\* not retryable, or lost once the retry budget is used up: the consumer is
\* finished.
C9_LostFinalizes ==
    \A r \in Resps :
        (/\ resp[r].conn # None
         /\ conn[resp[r].conn].st = "closed"
         /\ conn[resp[r].conn].exc \in Excs
         /\ \/ ~is_failure(conn[resp[r].conn].exc)
            \/ retries_left(r) = 0)
        => has_finished(State, r)

\* A consumer finished as failed by the loss of its connection with a failure
\* that is not retryable, before any header arrived.
C9_Witness ==
    \E r \in Resps :
        /\ resp[r].st = "failed"
        /\ resp[r].hdr = "none"
        /\ resp[r].conn # None
        /\ conn[resp[r].conn].st = "closed"
        /\ conn[resp[r].conn].exc = "other"

\* C10 (as claimed): when a connection is lost with a timeout or socket error
\* while a consumer that received nothing is attached and has retries left,
\* the consumer is detached and kept for its restart on a connection of the
\* same pool: it is not finished with the failure.
C10_ReconnectRestarts ==
    [][\A c \in Conns :
          LET r == conn[c].consumer
          IN (/\ conn[c].st = "open" /\ conn'[c].st = "closed"
              /\ is_failure(conn'[c].exc)
              /\ r # None
              /\ resp[r].st = "started"
              /\ retries_left(r) > 0)
             => /\ conn'[c].consumer = None
                /\ ~has_finished([resp |-> resp'], r)]_vars

\* Connection c is reported lost by this step.
Lost(c) == conn[c].st # "closed" /\ conn'[c].st = "closed" /\ conn'[c].exc \in Excs

\* C11: when a connection is lost that has no consumer attached, or is lost
\* with a failure that is neither a timeout nor a socket error, or whose
\* consumer has no retry left, no reconnection is attempted: _reconnect is
\* neither called nor scheduled, so no connection is acquired or constructed
\* and no consumer is started by the step.
C11_NoReconnect ==
    [][\A c \in Conns :
          (/\ Lost(c)
           /\ \/ conn[c].consumer = None
              \/ ~is_failure(conn'[c].exc)
              \/ retries_left(conn[c].consumer) = 0)
          => /\ reconnects' = reconnects
             /\ \A x \in Conns : ~Constructed(x)
             /\ \A p \in Pools : concurrent'[p] \subseteq concurrent[p]
             /\ \A r \in Resps : resp'[r].st = "started" => resp[r].st = "started"]_vars

\* One connection was lost with a socket error while idle (no consumer), and
\* another with a failure that is no socket error while its consumer waited
\* for the response.
C11_Witness ==
    \E c1 \in Conns, c2 \in Conns, r \in Resps :
        /\ conn[c1].st = "closed" /\ conn[c1].exc = "socket"
        /\ \A x \in Resps : resp[x].conn = c1 => resp[x].st = "done"
        /\ conn[c2].st = "closed" /\ conn[c2].exc = "other"
        /\ resp[r].conn = c2 /\ resp[r].st = "failed" /\ resp[r].hdr = "none"
        /\ reconnects = {}

\* ------------------------------------------------------------- backoff
\* The largest argument reconnect_time_lag is tried with.
MaxLag == 11

\* What a call gives: a value, or the exception it ends with.
Returned(v) == [exc |-> "none", value |-> v]
Raises(e) == [exc |-> e, value |-> 0]

\* Client.reconnect_time_lag(lag): `self.reconnect_time_lag*(math.log(lag) + 1)`
\* multiplies the bound method itself (not reconnecting_gap) by a float.
\* math.log is evaluated first and raises ValueError for a lag that is not
\* positive; for every other lag the product raises TypeError. No delay is
\* ever returned and round() is never reached.
reconnect_time_lag(n) ==
    IF n <= 0 THEN Raises("ValueError") ELSE Raises("TypeError")

\* ConnectionPool._try_reconnect from `if retries:` on, for the number of
\* retries can_reconnect reported (not zero): with retries - 1 not zero the
\* delay is asked of reconnect_time_lag and _reconnect is handed to call_later
\* once the delay is there; with retries - 1 zero _reconnect is called at
\* once, with no delay.
schedule_reconnect(retries) ==
    LET n == retries - 1 IN
    IF n # 0
    THEN LET d == reconnect_time_lag(n) IN
         [reconnect |-> IF d.exc = "none" THEN "call_later" ELSE "never",
          delay |-> d]
    ELSE [reconnect |-> "at once", delay |-> Returned(0)]

\* A trial: the delays for two numbers of attempts, a > b >= 1, or the
\* scheduling of a reconnect for a number of retries.
LagInit ==
    /\ ClientInit
    /\ lag \in {[pc |-> "in", a |-> a, b |-> b] :
                   a \in 1..MaxLag, b \in 1..MaxLag}
               \cup {[pc |-> "retries", retries |-> n] : n \in 1..MaxLag}
    /\ lag.pc = "in" => lag.a > lag.b
    /\ redir = RedirIdle
    /\ hdrs = HdrsIdle
    /\ tunnel = TunnelIdle
    /\ proxy = ProxyIdle
    /\ http = HttpIdle
    /\ threads = ThreadsIdle
    /\ enc = EncIdle
    /\ shut = ShutIdle

ComputeLag ==
    /\ lag.pc = "in"
    /\ lag' = [pc |-> "out", a |-> lag.a, b |-> lag.b,
               delay_a |-> reconnect_time_lag(lag.a),
               delay_b |-> reconnect_time_lag(lag.b)]
    /\ UNCHANGED <<client_vars, redir, hdrs, tunnel, proxy, http, threads, enc, shut>>

ScheduleReconnect ==
    /\ lag.pc = "retries"
    /\ lag' = [pc |-> "scheduled", retries |-> lag.retries,
               reconnect |-> schedule_reconnect(lag.retries).reconnect,
               delay |-> schedule_reconnect(lag.retries).delay]
    /\ UNCHANGED <<client_vars, redir, hdrs, tunnel, proxy, http, threads, enc, shut>>

LagNext == ComputeLag \/ ScheduleReconnect

LagSpec == LagInit /\ [][LagNext]_vars

\* C12 (as claimed): for attempts a > b >= 1 reconnect_time_lag computes a
\* delay for each, and the delay for b is at least the delay for a.
C12_BackoffMonotone ==
    lag.pc = "out" =>
        /\ lag.delay_a.exc = "none"
        /\ lag.delay_b.exc = "none"
        /\ lag.delay_b.value >= lag.delay_a.value

\* C35 (as claimed): reconnect_time_lag computes a delay for every number of
\* attempts remaining, a larger one for the larger number, and a reconnect
\* that is made is made through call_later with a computed delay.
C35_BackoffPrecedesReconnect ==
    /\ lag.pc = "out" =>
           /\ lag.delay_a.exc = "none"
           /\ lag.delay_b.exc = "none"
           /\ lag.delay_a.value > lag.delay_b.value
    /\ (lag.pc = "scheduled" /\ lag.reconnect # "never") =>
           /\ lag.reconnect = "call_later"
           /\ lag.delay.exc = "none"

\* ------------------------------------------------------------- redirects
\* The largest max_redirects a request is made with.
MaxRedirects == 2
\* Responses built for one request and the requests made again from it.
MaxHops == 4

\* What a finished response's status line and headers say.
Statuses == {"200", "3xx_location", "3xx"}

\* A response built by HttpClient: st as for the engine's consumers, status of
\* the parsed message, _history as the sequence of responses (by position in
\* `hops`), prior the response it was made again from, by what built it
\* (HttpClient.request, the redirect hook or a caller of again), history_arg
\* the `history` argument of the again() that built it.
NewHop(prior, by, history_arg, history) ==
    [st |-> "started", status |-> "none", exc |-> "none", history |-> history,
     prior |-> prior, by |-> by, history_arg |-> history_arg]

hop_finished(s, i) == s.hops[i].st \in Finished

\* Faulty variant: the assert is gone (as under python -O).
again_unchecked(s, i, history_arg, by) ==
    LET prev == s.hops[i]
        h == IF history_arg THEN Append(prev.history, i) ELSE << >>
    IN [s EXCEPT !.hops = Append(@, NewHop(i, by, history_arg, h))]

\* Faulty variant: the prior response is not appended to the history.
again_forgets_prior(s, i, history_arg, by) ==
    IF ~hop_finished(s, i)
    THEN [s EXCEPT !.raised = "AssertionError"]
    ELSE LET prev == s.hops[i]
             h == IF history_arg THEN prev.history ELSE << >>
         IN [s EXCEPT !.hops = Append(@, NewHop(i, by, history_arg, h))]

\* HttpClient.again(response, history=history_arg): the assert, the new
\* consumer with its _history, the request built anew from the prior request's
\* parameters (allow_redirects and max_redirects with them) and dispatched.
\* _history is None unless history is asked for; None reads as empty.
again(s, i, history_arg, by) ==
    IF ~hop_finished(s, i)
    THEN [s EXCEPT !.raised = "AssertionError"]
    ELSE LET prev == s.hops[i]
             h == IF history_arg THEN Append(prev.history, i) ELSE << >>
         IN [s EXCEPT !.hops = Append(@, NewHop(i, by, history_arg, h))]

\* handle_redirect, the post_request hook HttpClient.setup binds: a 3xx with a
\* Location header of a request that allows redirects is followed by again()
\* with history, unless the history already holds max_redirects responses: then
\* the response ends with TooManyRedirects.
handle_redirect(s, i) ==
    IF s.hops[i].status = "3xx_location" /\ s.allow_redirects
    THEN IF Len(s.hops[i].history) >= s.max_redirects
         THEN [s EXCEPT !.hops[i].st = "failed",
                        !.hops[i].exc = "TooManyRedirects"]
         ELSE again(s, i, TRUE, "redirect")
    ELSE s

\* The message of response i is complete: the consumer is finished and its
\* post_request hooks run.
hop_finished_with(s, i, status) ==
    handle_redirect([s EXCEPT !.hops[i].st = "done", !.hops[i].status = status], i)

RedirInit ==
    /\ ClientInit
    /\ lag = LagIdle
    /\ redir \in {[pc |-> "run", allow_redirects |-> a, max_redirects |-> m,
                   hops |-> << >>, raised |-> "none"] :
                     a \in BOOLEAN, m \in 0..MaxRedirects}
    /\ hdrs = HdrsIdle
    /\ tunnel = TunnelIdle
    /\ proxy = ProxyIdle
    /\ http = HttpIdle
    /\ threads = ThreadsIdle
    /\ enc = EncIdle
    /\ shut = ShutIdle

\* HttpClient.request: the first response of the chain.
HttpRequest ==
    /\ redir.pc = "run"
    /\ redir.hops = << >>
    /\ redir' = [redir EXCEPT !.hops = <<NewHop(None, "request", FALSE, << >>)>>]
    /\ UNCHANGED <<client_vars, lag, hdrs, tunnel, proxy, http, threads, enc, shut>>

\* The server's answer to request i is complete.
HopComplete(i, status) ==
    /\ redir.pc = "run"
    /\ i \in 1..Len(redir.hops)
    /\ redir.hops[i].st = "started"
    /\ Len(redir.hops) < MaxHops
    /\ redir' = hop_finished_with(redir, i, status)
    /\ UNCHANGED <<client_vars, lag, hdrs, tunnel, proxy, http, threads, enc, shut>>

\* The connection of request i is lost before its answer is complete.
HopFails(i) ==
    /\ redir.pc = "run"
    /\ i \in 1..Len(redir.hops)
    /\ redir.hops[i].st = "started"
    /\ redir' = [redir EXCEPT !.hops[i].st = "failed", !.hops[i].exc = "other"]
    /\ UNCHANGED <<client_vars, lag, hdrs, tunnel, proxy, http, threads, enc, shut>>

\* A caller makes request i again (as the authentication handlers do).
Again(i, history_arg) ==
    /\ redir.pc = "run"
    /\ i \in 1..Len(redir.hops)
    /\ Len(redir.hops) < MaxHops
    /\ redir' = again([redir EXCEPT !.raised = "none"], i, history_arg, "again")
    /\ UNCHANGED <<client_vars, lag, hdrs, tunnel, proxy, http, threads, enc, shut>>

RedirNext ==
    \/ HttpRequest
    \/ \E i \in 1..MaxHops, status \in Statuses : HopComplete(i, status)
    \/ \E i \in 1..MaxHops : HopFails(i)
    \/ \E i \in 1..MaxHops, history_arg \in BOOLEAN : Again(i, history_arg)

RedirSpec == RedirInit /\ [][RedirNext]_vars

\* Redirects followed in a row up to response i.
RECURSIVE RedirectsBefore(_)
RedirectsBefore(i) ==
    IF redir.hops[i].by = "redirect"
    THEN 1 + RedirectsBefore(redir.hops[i].prior)
    ELSE 0

\* C13: with allow_redirects, no response is more than max_redirects redirects
\* away from the request that started the chain, and a response that is
\* max_redirects redirects away and is itself a 3xx with a Location header is
\* not pending and not followed: it has ended with TooManyRedirects.
C13_RedirectBound ==
    redir.pc = "run" =>
        \A i \in 1..Len(redir.hops) :
            /\ RedirectsBefore(i) <= redir.max_redirects
            /\ (/\ redir.allow_redirects
                /\ redir.hops[i].status = "3xx_location"
                /\ RedirectsBefore(i) = redir.max_redirects)
               => /\ redir.hops[i].st = "failed"
                  /\ redir.hops[i].exc = "TooManyRedirects"
                  /\ \A j \in 1..Len(redir.hops) :
                        redir.hops[j].by = "redirect" => redir.hops[j].prior # i

\* max_redirects (at least one) redirects were followed and the next 3xx ended
\* the chain with TooManyRedirects.
C13_Witness ==
    /\ redir.pc = "run"
    /\ redir.max_redirects >= 1
    /\ \E i \in 1..Len(redir.hops) :
          /\ redir.hops[i].exc = "TooManyRedirects"
          /\ RedirectsBefore(i) = redir.max_redirects
          /\ Len(redir.hops[i].history) = redir.max_redirects

\* The responses a chain of again(history=True) calls went through before
\* response i, in hop order.
RECURSIVE HopsBefore(_)
HopsBefore(i) ==
    IF redir.hops[i].by = "request" \/ ~redir.hops[i].history_arg
    THEN << >>
    ELSE Append(HopsBefore(redir.hops[i].prior), redir.hops[i].prior)

\* C20: a response is made again only once it has finished: again() on a
\* response in flight raises and builds or dispatches nothing; and the history
\* of a response built by again(history=True) is the history of the prior
\* response followed by the prior response, so after k chained calls it holds
\* the k responses before it in hop order.
C20_AgainHistory ==
    /\ [](redir.pc = "run" =>
            \A i \in 1..Len(redir.hops) :
                redir.hops[i].history_arg =>
                    /\ redir.hops[i].history = HopsBefore(i)
                    /\ redir.hops[i].history =
                          Append(redir.hops[redir.hops[i].prior].history,
                                 redir.hops[i].prior))
    /\ [][redir.pc = "run" =>
            /\ (redir.raised = "none" /\ redir'.raised = "AssertionError")
               => redir'.hops = redir.hops
            /\ Len(redir'.hops) > Len(redir.hops) =>
                  LET new == redir'.hops[Len(redir'.hops)]
                  IN /\ Len(redir'.hops) = Len(redir.hops) + 1
                     /\ new.by = "again" => hop_finished(redir, new.prior)
                     /\ new.by = "redirect" => hop_finished(redir', new.prior)
                     /\ new.st = "started"]_vars

\* again() was refused for a response in flight whose history, after two
\* chained again(history=True) calls, holds the two responses before it.
C20_Witness ==
    /\ redir.pc = "run"
    /\ redir.raised = "AssertionError"
    /\ \E i \in 1..Len(redir.hops) :
          /\ redir.hops[i].st = "started"
          /\ redir.hops[i].by = "again"
          /\ Len(redir.hops[i].history) = 2
          /\ redir.hops[redir.hops[i].prior].by = "again"

\* ------------------------------------------------------------- proxy headers
\* The most headers a response is received with.
MaxHeaders == 4

\* Header names as received, in the spellings servers send.
HeaderNames == {"Connection", "connection", "Transfer-Encoding", "Keep-Alive",
                "Content-Type", "X-Custom"}

\* str.lower on the names
lower(name) ==
    CASE name = "Connection" -> "connection"
      [] name = "Transfer-Encoding" -> "transfer-encoding"
      [] name = "Keep-Alive" -> "keep-alive"
      [] name = "Content-Type" -> "content-type"
      [] name = "X-Custom" -> "x-custom"
      [] OTHER -> name

\* wsgi.HOP_HEADERS: the hop-by-hop headers, in lower case.
HOP_HEADERS == {"connection", "keep-alive", "proxy-authenticate",
                "proxy-authorization", "te", "trailers", "transfer-encoding",
                "upgrade"}

\* Faulty variant: the names are compared as received, not in lower case.
remove_hop_headers_cased(raw) ==
    SelectSeq(raw, LAMBDA header : header \notin HOP_HEADERS)

\* ProxyResponse.remove_hop_headers
remove_hop_headers(raw) ==
    SelectSeq(raw, LAMBDA header : lower(header) \notin HOP_HEADERS)

\* ProxyResponse.headers before the response is started.
NoHeaders == [is_none |-> TRUE]

\* ProxyResponse.data_processed: once the parser has the headers, the first
\* call builds the headers passed downstream and starts the response; later
\* calls leave them alone.
data_processed(h) ==
    IF h.headers_complete
    THEN IF h.headers = NoHeaders
         THEN [h EXCEPT !.headers = [is_none |-> FALSE,
                                     view |-> remove_hop_headers(h.raw)],
                        !.started = TRUE]
         ELSE h
    ELSE h

HdrsInit ==
    /\ ClientInit
    /\ lag = LagIdle
    /\ redir = RedirIdle
    /\ hdrs \in {[pc |-> "run", raw |-> raw, headers_complete |-> FALSE,
                  headers |-> NoHeaders, started |-> FALSE] :
                    raw \in UNION {[1..n -> HeaderNames] : n \in 0..MaxHeaders}}
    /\ tunnel = TunnelIdle
    /\ proxy = ProxyIdle
    /\ http = HttpIdle
    /\ threads = ThreadsIdle
    /\ enc = EncIdle
    /\ shut = ShutIdle

\* The parser completes the headers of the upstream response.
HeadersComplete ==
    /\ hdrs.pc = "run"
    /\ ~hdrs.headers_complete
    /\ hdrs' = [hdrs EXCEPT !.headers_complete = TRUE]
    /\ UNCHANGED <<client_vars, lag, redir, tunnel, proxy, http, threads, enc, shut>>

\* The data_processed event of the upstream response fires.
DataProcessed ==
    /\ hdrs.pc = "run"
    /\ hdrs' = data_processed(hdrs)
    /\ UNCHANGED <<client_vars, lag, redir, tunnel, proxy, http, threads, enc, shut>>

HdrsNext == HeadersComplete \/ DataProcessed

HdrsSpec == HdrsInit /\ [][HdrsNext]_vars

\* The hop-by-hop names among HeaderNames, in every spelling.
HopNames == {"Connection", "connection", "Transfer-Encoding", "Keep-Alive"}

\* The ordinary headers among the first i raw headers.
OrdinaryUpTo(i) == Cardinality({j \in 1..i : hdrs.raw[j] \notin HopNames})

\* C14: the headers passed downstream are the received headers that are not
\* hop-by-hop, each once and in the order received: Connection and
\* Transfer-Encoding never get through, whatever their spelling.
C14_HopHeadersStripped ==
    (hdrs.pc = "run" /\ hdrs.headers # NoHeaders) =>
        LET view == hdrs.headers.view
        IN /\ Len(view) = OrdinaryUpTo(Len(hdrs.raw))
           /\ \A i \in 1..Len(hdrs.raw) :
                 hdrs.raw[i] \notin HopNames
                     => view[OrdinaryUpTo(i)] = hdrs.raw[i]
           /\ \A k \in 1..Len(view) : view[k] \notin HopNames

\* Connection, Transfer-Encoding and two ordinary headers were received and
\* the two ordinary ones were passed downstream.
C14_Witness ==
    /\ hdrs.pc = "run"
    /\ hdrs.raw = <<"Connection", "X-Custom", "Transfer-Encoding", "Content-Type">>
    /\ hdrs.headers # NoHeaders
    /\ hdrs.headers.view = <<"X-Custom", "Content-Type">>
    /\ hdrs.started

\* ------------------------------------------------------------- proxy server
\* The most chunks of bytes a leg of a tunnel receives.
MaxChunks == 2

\* The chunks of bytes a peer sends.
Bytes == {"a", "b"}
Methods == {"CONNECT", "GET"}
Legs == {"up", "down"}

\* The request the proxy serves: up and down are the upstream and downstream
\* connections ("eof": the peer has closed, connection_lost not yet
\* delivered), up_consumer and down_consumer the consumers attached to them,
\* down_factory the consumer factory of the downstream connection, status the
\* status start_response was called with and starts the times it was called,
\* _done and queue the fields of the ProxyResponse, puts what was put on the
\* queue, iter the WSGI server's iteration over the response ("waiting" in
\* queue.get(), "yielded" at the yield) and yielded what it was given, raised
\* an exception that ended a handler, and the four sequences the chunks
\* received from and written to each leg.
TunnelStart ==
    [pc |-> "run", method |-> "none", up |-> "none", down |-> "open",
     up_consumer |-> "none", down_consumer |-> "wsgi", down_factory |-> "wsgi",
     errback |-> FALSE, status |-> "none", starts |-> 0, _done |-> FALSE,
     queue |-> << >>, puts |-> << >>, iter |-> "waiting", yielded |-> << >>,
     raised |-> "none", down_in |-> << >>, up_out |-> << >>,
     up_in |-> << >>, down_out |-> << >>]

\* Queue.put
queue_put(t, item) ==
    [t EXCEPT !.queue = Append(@, item), !.puts = Append(@, item)]

\* start_response
start_response(t, status) ==
    [t EXCEPT !.status = status, !.starts = @ + 1]

\* ProxyResponse.setup
ProxyResponse_setup(t) == [t EXCEPT !.errback = TRUE]

\* ProxyTunnel.setup: the downstream connection is upgraded to build a
\* DownStreamTunnel for the data that arrives next, and connection_made of the
\* upstream connection is bound. on_finished gets no errback.
ProxyTunnel_setup(t) == [t EXCEPT !.down_factory = "DownStreamTunnel"]

\* ProxyServerWsgiHandler.__call__: the request is sent on with the HttpClient
\* (a connection to the target is being made) and answered by a ProxyTunnel
\* for CONNECT, by a ProxyResponse for any other method.
ProxyServerWsgiHandler_call(t, method) ==
    LET t1 == [t EXCEPT !.method = method, !.up = "connecting",
                        !.up_consumer = "HttpResponse"]
    IN IF method = "CONNECT" THEN ProxyTunnel_setup(t1)
       ELSE ProxyResponse_setup(t1)

\* ProxyTunnel.connection_made
ProxyTunnel_connection_made(t) ==
    queue_put([start_response(t, "200") EXCEPT !._done = TRUE], "empty")

\* ProxyResponse.error
ProxyResponse_error(t) ==
    queue_put([start_response(t, "504") EXCEPT !._done = TRUE], "error page")

\* The failure of the upstream response reaches the errbacks of on_finished.
on_finished_errback(t) ==
    IF t.errback THEN ProxyResponse_error(t) ELSE t

\* DownStreamTunnel.connection_made: the upstream connection is upgraded and
\* its UpstreamTunnel built at once.
DownStreamTunnel_connection_made(t) ==
    [t EXCEPT !.up_consumer = "UpstreamTunnel"]

\* DownStreamTunnel.data_received: upstream.transport is None until the
\* connection to the target is made.
DownStreamTunnel_data_received(t, data) ==
    IF t.up \in {"connecting", "failed"}
    THEN [t EXCEPT !.raised = "AttributeError"]
    ELSE [t EXCEPT !.up_out = Append(@, data)]

\* UpstreamTunnel.data_received
UpstreamTunnel_data_received(t, data) ==
    [t EXCEPT !.down_out = Append(@, data)]

\* The tunnel is established: ProxyTunnel.connection_made has started it.
Established(t) == t.method = "CONNECT" /\ t.status = "200"

\* Connection.data_received of the downstream connection: the consumer is
\* built from the connection's factory when the first data arrive.
down_data_received(t, data) ==
    LET t1 == [t EXCEPT !.down_in = Append(@, data)]
        t2 == IF t1.down_consumer # t1.down_factory
              THEN DownStreamTunnel_connection_made(
                       [t1 EXCEPT !.down_consumer = t1.down_factory])
              ELSE t1
    IN DownStreamTunnel_data_received(t2, data)

\* Connection.data_received of the upstream connection: the data go to the
\* consumer attached, the HttpResponse of the CONNECT request until the
\* connection is upgraded.
up_data_received(t, data) ==
    LET t1 == [t EXCEPT !.up_in = Append(@, data)]
    IN IF t1.up_consumer = "UpstreamTunnel"
       THEN UpstreamTunnel_data_received(t1, data)
       ELSE t1

TunnelInit ==
    /\ ClientInit
    /\ lag = LagIdle
    /\ redir = RedirIdle
    /\ hdrs = HdrsIdle
    /\ tunnel = TunnelStart
    /\ proxy = ProxyIdle
    /\ http = HttpIdle
    /\ threads = ThreadsIdle
    /\ enc = EncIdle
    /\ shut = ShutIdle

TunnelOnly == UNCHANGED <<client_vars, lag, redir, hdrs, proxy, http, threads, enc, shut>>

\* A downstream client's request reaches the WSGI handler.
ProxyCall(method) ==
    /\ tunnel.pc = "run"
    /\ tunnel.method = "none"
    /\ tunnel.down = "open"
    /\ tunnel' = ProxyServerWsgiHandler_call(tunnel, method)
    /\ TunnelOnly

\* The connection to the target is made: its connection_made event fires.
UpstreamConnected ==
    /\ tunnel.pc = "run"
    /\ tunnel.up = "connecting"
    /\ tunnel' = IF tunnel.method = "CONNECT"
                 THEN ProxyTunnel_connection_made([tunnel EXCEPT !.up = "open"])
                 ELSE [tunnel EXCEPT !.up = "open"]
    /\ TunnelOnly

\* The connection to the target cannot be made: the upstream response is
\* finished with the failure.
UpstreamConnectFails ==
    /\ tunnel.pc = "run"
    /\ tunnel.up = "connecting"
    /\ tunnel' = on_finished_errback([tunnel EXCEPT !.up = "failed"])
    /\ TunnelOnly

\* The n-th chunk of body a response is received in.
BodyChunk(n) ==
    CASE n = 1 -> "body 1" [] n = 2 -> "body 2" [] n = 3 -> "body 3"
      [] OTHER -> "body"

\* ProxyResponse.data_processed with the headers complete: the first call
\* starts the response; the body received is put on the queue, after _done is
\* set when the message is complete.
ProxyResponse_data_processed(t, message_complete) ==
    LET t1 == IF t.starts = 0 THEN start_response(t, "upstream") ELSE t
        t2 == IF message_complete THEN [t1 EXCEPT !._done = TRUE] ELSE t1
    IN queue_put(t2, BodyChunk(Len(t2.puts) + 1))

\* A part of the target's answer to a request that is no CONNECT arrives,
\* with the end of the message in it or not; the last part the model lets
\* arrive has it.
UpstreamAnswers(message_complete) ==
    /\ tunnel.pc = "run"
    /\ tunnel.method = "GET"
    /\ tunnel.up = "open"
    /\ ~tunnel._done
    /\ Len(tunnel.puts) < MaxChunks
    /\ message_complete \/ Len(tunnel.puts) + 1 < MaxChunks
    /\ tunnel' = ProxyResponse_data_processed(tunnel, message_complete)
    /\ TunnelOnly

\* ProxyResponse.__iter__, `yield self.queue.get()`: the WSGI server is given
\* the next item of the queue.
Iterate ==
    /\ tunnel.pc = "run"
    /\ tunnel.iter = "waiting"
    /\ tunnel.queue # << >>
    /\ tunnel' = [tunnel EXCEPT !.queue = Tail(@),
                                !.yielded = Append(@, Head(tunnel.queue)),
                                !.iter = "yielded"]
    /\ TunnelOnly

\* ProxyResponse.__iter__, `while not self._done`: the WSGI server asks for
\* the item after the one it was given.
IterateOn ==
    /\ tunnel.pc = "run"
    /\ tunnel.iter = "yielded"
    /\ tunnel' = [tunnel EXCEPT !.iter = IF tunnel._done THEN "stopped"
                                         ELSE "waiting"]
    /\ TunnelOnly

\* The downstream client sends a chunk after its CONNECT request without
\* waiting for the answer.
DownDataEarly(data) ==
    /\ tunnel.pc = "run"
    /\ tunnel.method = "CONNECT"
    /\ ~Established(tunnel)
    /\ tunnel.down = "open"
    /\ Len(tunnel.down_in) < MaxChunks
    /\ tunnel' = down_data_received(tunnel, data)
    /\ TunnelOnly

\* The downstream client sends a chunk through the established tunnel.
DownData(data) ==
    /\ tunnel.pc = "run"
    /\ Established(tunnel)
    /\ tunnel.down = "open"
    /\ Len(tunnel.down_in) < MaxChunks
    /\ tunnel' = down_data_received(tunnel, data)
    /\ TunnelOnly

\* The target sends a chunk through the established tunnel.
UpData(data) ==
    /\ tunnel.pc = "run"
    /\ Established(tunnel)
    /\ tunnel.up = "open"
    /\ Len(tunnel.up_in) < MaxChunks
    /\ tunnel' = up_data_received(tunnel, data)
    /\ TunnelOnly

\* The peer of a leg closes its end.
PeerCloses(leg) ==
    /\ tunnel.pc = "run"
    /\ tunnel.method # "none"
    /\ tunnel[leg] = "open"
    /\ tunnel' = [tunnel EXCEPT ![leg] = "eof"]
    /\ TunnelOnly

\* The event loop reports the leg lost. An upstream response still awaited is
\* finished with the failure; neither tunnel consumer, nor ProxyTunnel, nor the
\* handler does anything about the other leg.
LegLost(leg) ==
    /\ tunnel.pc = "run"
    /\ tunnel[leg] = "eof"
    /\ tunnel' = IF leg = "up" /\ tunnel.method = "GET" /\ ~tunnel._done
                 THEN on_finished_errback([tunnel EXCEPT ![leg] = "closed"])
                 ELSE [tunnel EXCEPT ![leg] = "closed"]
    /\ TunnelOnly

\* What the proxy does of its own, with nothing new from either peer.
ProxyStep == Iterate \/ IterateOn \/ \E leg \in Legs : LegLost(leg)

TunnelNext ==
    \/ \E method \in Methods : ProxyCall(method)
    \/ UpstreamConnected
    \/ UpstreamConnectFails
    \/ \E message_complete \in BOOLEAN : UpstreamAnswers(message_complete)
    \/ Iterate
    \/ IterateOn
    \/ \E data \in Bytes : DownDataEarly(data)
    \/ \E data \in Bytes : DownData(data)
    \/ \E data \in Bytes : UpData(data)
    \/ \E leg \in Legs : PeerCloses(leg)
    \/ \E leg \in Legs : LegLost(leg)

TunnelSpec == TunnelInit /\ [][TunnelNext]_vars

\* C15 (as claimed): once the tunnel is established, what was written to the
\* upstream transport is what was received from downstream, and what was
\* written to the downstream transport is what was received from upstream:
\* the same chunks in the same order.
C15_TunnelVerbatim ==
    (tunnel.pc = "run" /\ Established(tunnel)) =>
        /\ tunnel.up_out = tunnel.down_in
        /\ tunnel.down_out = tunnel.up_in

\* C16 (as claimed): the proxy never comes to rest with one leg of an
\* established tunnel closed and the other open.
C16_NoHalfOpenTunnel ==
    (tunnel.pc = "run" /\ Established(tunnel) /\ ~ENABLED ProxyStep) =>
        ~(\E leg \in Legs, other \in Legs :
             tunnel[leg] = "closed" /\ tunnel[other] = "open")

\* C17 (as claimed): when the connection to the target of a CONNECT request
\* cannot be made, the proxy does not come to rest before the downstream
\* response was started with a gateway failure status and its iteration
\* has ended.
C17_ConnectFailureAnswered ==
    (/\ tunnel.pc = "run" /\ tunnel.method = "CONNECT"
     /\ tunnel.up = "failed" /\ ~ENABLED ProxyStep)
    => (tunnel.status = "504" /\ tunnel.iter = "stopped")

\* ------------------------------------------------------------- proxy settings
\* Strings are sequences of pieces; the empty string is << >>.
Empty == << >>
\* The hostnames requests are made for.
Hosts == {<<"internal", ".test">>, <<"x", "internal", ".test">>,
          <<"external", ".test">>}
\* The `no` entry of proxy_info, as split(',') gives it: empty pieces come
\* from an empty string and from doubled or trailing commas.
NoLists == {<<Empty>>,
            <<<<"internal", ".test">>>>,
            <<<<"other", ".org">>, <<"internal", ".test">>, Empty>>,
            <<<<".test">>>>}
\* A netloc without a port has port None.
Netloc(host, port) == [host |-> host, port |-> port]
\* The proxy URL of a scheme, as urlparse gives it.
ProxyUrls == {[scheme |-> "http", netloc |-> Netloc(<<"proxy">>, 8080)],
              [scheme |-> "", netloc |-> Netloc(<<"proxy">>, 8080)]}
\* proxy_info: whether it has the request's scheme, the URL it has for it, and
\* its `no` entry.
ProxyInfos ==
    {[has_scheme |-> h, url |-> u, no |-> n] :
        h \in BOOLEAN, u \in ProxyUrls, n \in NoLists}

\* get_hostport(scheme, netloc): the port of the netloc, else the scheme's.
get_hostport(scheme, netloc) ==
    [host |-> netloc.host,
     port |-> IF netloc.port # None THEN netloc.port
              ELSE IF scheme \in {"https", "wss"} THEN 443 ELSE 80]

\* Faulty variant: a `no` entry exempts only the host equal to it.
endswith_whole(str, suffix) == str = suffix

\* str.endswith
endswith(str, suffix) ==
    /\ Len(suffix) <= Len(str)
    /\ \A i \in 1..Len(suffix) : str[Len(str) - Len(suffix) + i] = suffix[i]

\* HttpRequest.set_proxy(None) and the TLS context, in HttpRequest.__init__
HttpRequest_init(scheme, netloc) ==
    LET hp == get_hostport(scheme, netloc)
    IN [scheme |-> scheme, host |-> hp.host, port |-> hp.port,
        _proxy |-> FALSE, _ssl |-> scheme \in {"https", "wss"}]

\* HttpRequest.set_proxy(scheme, netloc)
HttpRequest_set_proxy(request, scheme, netloc) ==
    LET hp == get_hostport(scheme, netloc)
    IN [request EXCEPT !._proxy = TRUE,
                       !.scheme = IF ~request._ssl THEN scheme ELSE @,
                       !.host = hp.host, !.port = hp.port]

\* Faulty variant: the URL's scheme is not looked at.
set_proxy_unchecked(proxy_info, request) ==
    IF proxy_info.has_scheme
    THEN LET no_proxy == SelectSeq(proxy_info.no, LAMBDA n : n # Empty)
         IN IF ~(\E i \in 1..Len(no_proxy) : endswith(request.host, no_proxy[i]))
            THEN Returned(HttpRequest_set_proxy(request, proxy_info.url.scheme,
                                                proxy_info.url.netloc))
            ELSE Returned(request)
    ELSE Returned(request)

\* HttpClient.set_proxy
set_proxy(proxy_info, request) ==
    IF proxy_info.has_scheme
    THEN LET no_proxy == SelectSeq(proxy_info.no, LAMBDA n : n # Empty)
         IN IF ~(\E i \in 1..Len(no_proxy) : endswith(request.host, no_proxy[i]))
            THEN IF proxy_info.url.scheme = ""
                 THEN Raises("ValueError")
                 ELSE Returned(HttpRequest_set_proxy(request,
                                                     proxy_info.url.scheme,
                                                     proxy_info.url.netloc))
            ELSE Returned(request)
    ELSE Returned(request)

\* HttpClient._build_request: the HttpRequest, or the exception its
\* construction ends with.
_build_request(proxy_info, scheme, netloc) ==
    set_proxy(proxy_info, HttpRequest_init(scheme, netloc))

\* HttpRequest.key (the timeout is the same for all)
HttpRequest_key(request) ==
    [scheme |-> request.scheme,
     address |-> [host |-> request.host, port |-> request.port]]

\* No HttpRequest.key stands behind this key of the mapping yet.
NoKey == [scheme |-> "", address |-> [host |-> Empty, port |-> None]]

\* The key of the mapping that stands for an HttpRequest.key: the one it has
\* already, else one not taken. bound: None when every key is taken.
KeyFor(keys, key) ==
    IF \E k \in Keys : keys[k] = key
    THEN CHOOSE k \in Keys : keys[k] = key
    ELSE IF \E k \in Keys : keys[k] = NoKey
    THEN Min({k \in Keys : keys[k] = NoKey})
    ELSE None

ProxyInit ==
    /\ ClientInit
    /\ lag = LagIdle
    /\ redir = RedirIdle
    /\ hdrs = HdrsIdle
    /\ tunnel = TunnelIdle
    /\ http = HttpIdle
    /\ threads = ThreadsIdle
    /\ enc = EncIdle
    /\ shut = ShutIdle
    /\ proxy \in {[pc |-> "run", proxy_info |-> i, keys |-> [k \in Keys |-> NoKey],
                   requests |-> 0, host |-> Empty, raised |-> "none",
                   key |-> None, request |-> HttpRequest_init("https", Netloc(Empty, None))] :
                     i \in ProxyInfos}

\* HttpClient.request for https://host/...: the request is built, and only
\* then handed to Client.response.
HttpClientRequest(host, fault) ==
    /\ proxy.pc = "run"
    /\ proxy.requests < MaxResps
    /\ UnusedResps(State) # {}
    /\ LET built == _build_request(proxy.proxy_info, "https", Netloc(host, None))
           made == [proxy EXCEPT !.requests = @ + 1, !.host = host]
       IN IF built.exc # "none"
          THEN /\ proxy' = [made EXCEPT !.raised = built.exc, !.key = None]
               /\ UNCHANGED client_vars
          ELSE LET key == HttpRequest_key(built.value)
                   k == KeyFor(proxy.keys, key)
               IN /\ k # None
                  /\ proxy' = [made EXCEPT !.raised = "none", !.key = k,
                                           !.keys[k] = key,
                                           !.request = built.value]
                  /\ \E t \in response(State, k, fault) : Commit(t)
    /\ UNCHANGED <<lag, redir, hdrs, tunnel, http, threads, enc, shut>>

ProxyNext == \E host \in Hosts, fault \in Faults : HttpClientRequest(host, fault)

ProxySpec == ProxyInit /\ [][ProxyNext]_vars

\* suffix is a tail of str.
IsTail(suffix, str) ==
    \E n \in 0..Len(str) : SubSeq(str, n + 1, Len(str)) = suffix

\* The `no` list names a suffix of the host.
Exempt(host) ==
    \E i \in 1..Len(proxy.proxy_info.no) :
        proxy.proxy_info.no[i] # Empty /\ IsTail(proxy.proxy_info.no[i], host)

\* C18: with a proxy set for the scheme, a request that is built for a host
\* ending with a suffix of the `no` list connects to its own host and port,
\* and any other request that is built connects to the host and port of the
\* proxy, which is the address of the pool key it is dispatched under.
C18_ProxyBypass ==
    (/\ proxy.pc = "run" /\ proxy.requests > 0
     /\ proxy.proxy_info.has_scheme /\ proxy.raised = "none")
    => LET address == [host |-> proxy.request.host, port |-> proxy.request.port]
       IN /\ Exempt(proxy.host) => address = [host |-> proxy.host, port |-> 443]
          /\ ~Exempt(proxy.host) => address = [host |-> <<"proxy">>, port |-> 8080]
          /\ proxy.keys[proxy.key].address = address
          /\ connection_pools[proxy.key] # None

\* With internal.test exempted, a request for xinternal.test went out under a
\* key of its own address and the request for external.test after it under
\* the key of the proxy's.
C18_Witness ==
    /\ proxy.pc = "run"
    /\ proxy.host = <<"external", ".test">>
    /\ proxy.raised = "none"
    /\ proxy.request._proxy
    /\ \E k \in Keys :
          /\ k # proxy.key
          /\ proxy.keys[k].address = [host |-> <<"x", "internal", ".test">>,
                                      port |-> 443]
          /\ connection_pools[k] # None

\* The proxy URL of the scheme has no scheme of its own.
Malformed == proxy.proxy_info.has_scheme /\ proxy.proxy_info.url.scheme = ""

\* C19 (as claimed): with a malformed proxy URL for the scheme, every request
\* of the scheme raises out of request().
C19_MalformedProxyRaises ==
    (proxy.pc = "run" /\ proxy.requests > 0 /\ Malformed)
    => proxy.raised = "ValueError"

\* C19 (amended): with a malformed proxy URL for the scheme, a request for a
\* host the `no` list does not exempt raises ValueError out of request(), and
\* the request that raises builds no response, acquires no connection and
\* leaves the pools as they were; no other request raises.
C19_MalformedProxyRaisesUnlessExempt ==
    /\ []((proxy.pc = "run" /\ proxy.requests > 0)
          => (proxy.raised = "ValueError" <=> (Malformed /\ ~Exempt(proxy.host))))
    /\ [][(/\ proxy.pc = "run" /\ proxy'.requests = proxy.requests + 1
           /\ proxy'.raised # "none")
          => UNCHANGED client_vars]_vars

\* A request raised for the malformed proxy URL after a request for an
\* exempted host was dispatched: the pool of that one is as it was.
C19_Witness ==
    /\ proxy.pc = "run"
    /\ proxy.raised = "ValueError"
    /\ proxy.requests = 2
    /\ \E k \in Keys : connection_pools[k] # None /\ concurrent[connection_pools[k]] # {}
    /\ Cardinality({r \in Resps : resp[r].st # "none"}) = 1

\* ------------------------------------------------------------- one consumer
\* Response r is in flight: dispatched and not finished.
InFlight(r) == resp[r].st \in {"waiting", "started", "headers", "complete"}

\* C27: a connection has at most one consumer attached, which is the consumer
\* that holds it; a consumer is attached to a connection only when the
\* connection has no consumer and every consumer it served before is finished;
\* so two requests in flight are never attached to the same connection.
C27_OneConsumer ==
    /\ [](\A r1 \in Resps, r2 \in Resps :
            (r1 # r2 /\ InFlight(r1) /\ InFlight(r2))
            => resp[r1].conn # resp[r2].conn)
    /\ [](\A c \in Conns :
            conn[c].consumer # None => resp[conn[c].consumer].conn = c)
    /\ [][\A c \in Conns :
            (conn'[c].consumer # None /\ conn'[c].consumer # conn[c].consumer)
            => /\ conn[c].consumer = None
               /\ \A r \in Resps : resp[r].conn = c => has_finished(State, r)]_vars

\* A connection serves its second consumer, attached after the first one was
\* done, and the second has its headers.
C27_Witness ==
    \E c \in Conns, r1 \in Resps, r2 \in Resps :
        /\ r1 # r2
        /\ resp[r1].conn = c /\ resp[r1].st = "done"
        /\ resp[r2].conn = c /\ resp[r2].st = "headers"
        /\ conn[c].consumer = r2

\* ------------------------------------------------------------- HttpResponse
\* Calls of data_received one consumer is followed for.
MaxData == 2

\* What a chunk of bytes is to the parser it is fed to:
\*   part         consumed whole, completes nothing
\*   headers      consumed whole, completes the headers
\*   message      consumed whole, completes the headers and the message
\*   body_end     consumed whole, completes the message after its headers
\*   bad          not consumed whole, completes nothing
\*   headers_bad  completes the headers, the bytes after them are not consumed
Data == {"part", "headers", "message", "body_end", "bad", "headers_bad"}

\* The parser of a request that has been fed nothing.
NewParser == [headers_complete |-> FALSE, message_complete |-> FALSE, fed |-> 0,
              refused |-> FALSE]

\* The chunks a parser in state p can be given: one message per parser, what
\* follows a complete message completes nothing.
Feedable(p) ==
    IF p.message_complete THEN {"part", "bad"}
    ELSE IF p.headers_complete THEN {"part", "body_end", "bad"}
    ELSE Data \ {"body_end"}

\* parser.execute(data, len(data)): the parser after the call (refused: its
\* last chunk was not consumed whole) and whether it consumed len(data) bytes.
parser_execute(p, data) ==
    [parser |-> [headers_complete |-> p.headers_complete
                                      \/ data \in {"headers", "message", "headers_bad"},
                 message_complete |-> p.message_complete
                                      \/ data \in {"message", "body_end"},
                 fed |-> p.fed + 1,
                 refused |-> data \in {"bad", "headers_bad"}],
     consumed |-> data \notin {"bad", "headers_bad"}]

\* The state of the engine together with the consumers' parsers and events.
HttpState ==
    [pools |-> connection_pools, pmax |-> pool_max, av |-> available,
     co |-> concurrent, conn |-> conn, resp |-> resp, closed |-> closed,
     finish |-> finish, wait |-> close_wait, timer |-> close_timer,
     raised |-> raised, reconnects |-> reconnects, http |-> http]

HttpCommit(t) == Commit(t) /\ http' = t.http

\* handle_redirect, the post_request hook HttpClient.setup binds: for a
\* response that redirects, the request is made again for the key `to` of its
\* Location (HttpClient.again, then Client.response). The hook notes whether
\* the connection of the response was in the available set of its pool when
\* it ran.
redirect_hook(s, r, to, fault) ==
    IF to = None \/ UnusedResps(s) = {}
    THEN {s}
    ELSE LET c == s.resp[r].conn
             p == s.pools[s.resp[r].key]
             noted == [s EXCEPT !.http.redirect =
                          [prior |-> r, next |-> Min(UnusedResps(s)),
                           conn_available |-> p # None /\ c \in s.av[p]]]
         IN response(noted, to, fault)

\* Faulty variant: the connection is released before the hooks of the client
\* run.
post_request_release_first(s, r, to, fault) ==
    redirect_hook(release_response_connection(s, r), r, to, fault)

\* The post_request event of an HttpClient's consumer. Client.build_consumer
\* copies the client's hooks to the consumer (handle_redirect) and binds
\* release_response_connection after them: the hooks run in that order.
post_request(s, r, to, fault) ==
    {release_response_connection(t, r) : t \in redirect_hook(s, r, to, fault)}

\* ProtocolConsumer.finished for a consumer of an HttpClient.
HttpResponse_finished(s, r, to, fault) ==
    post_request([s EXCEPT !.resp[r].st = "done",
                           !.http.post_request[r] = @ + 1], r, to, fault)

\* HttpResponse._continue
HttpResponse_continue(s, r, to, fault) ==
    IF ~has_finished(s, r) /\ s.http.parser[r].message_complete
    THEN HttpResponse_finished(s, r, to, fault)
    ELSE {s}

\* Faulty variant: the on_headers event is taken for not fired yet.
on_headers_never_done(s, r) == FALSE

\* self.event('on_headers').done()
on_headers_done(s, r) == s.http.on_headers[r] > 0

\* Faulty variant: a chunk that is not consumed whole is let pass.
ProtocolError_ignored(s, r) == s

\* `raise pulsar.ProtocolError`
ProtocolError(s, r) == [s EXCEPT !.http.raised[r] = "ProtocolError"]

\* What the consumer shows of its parser: the headers (Connection header h)
\* once they are complete, and how far the message is while it is not finished.
shown(s, r, h) ==
    LET p == s.http.parser[r]
        s1 == IF p.headers_complete /\ headers(s, r) = "none"
              THEN [s EXCEPT !.resp[r].hdr = h] ELSE s
    IN IF has_finished(s1, r) \/ ~p.headers_complete THEN s1
       ELSE [s1 EXCEPT !.resp[r].st = IF p.message_complete THEN "complete"
                                      ELSE "headers"]

\* HttpResponse.data_received(data), with every step of it: the parser is fed
\* first, whatever the state of the consumer.
HttpResponse_data_received(s, r, data, h, to, fault) ==
    LET x == parser_execute(s.http.parser[r], data)
        s1 == shown([s EXCEPT !.http.parser[r] = x.parser,
                              !.http.raised[r] = "none"], r, h)
    IN IF x.consumed
       THEN IF x.parser.headers_complete
            THEN IF ~on_headers_done(s1, r)
                 THEN HttpResponse_continue(
                          [s1 EXCEPT !.http.on_headers[r] = @ + 1], r, to, fault)
                 ELSE {s1}
            ELSE {s1}
       ELSE {ProtocolError(s1, r)}

\* Connection.data_received: the bytes go to the consumer attached; an
\* exception of the consumer is fatal to the connection, which is lost with it
\* (ProtocolError is no timeout and no socket error).
Connection_data_received(s, c, data, h, to, fault) ==
    { IF t.http.raised[s.conn[c].consumer] = "none" THEN t
      ELSE connection_lost(t, c, "other")
      : t \in HttpResponse_data_received(s, s.conn[c].consumer, data, h, to, fault) }

HttpInit ==
    /\ ClientInit
    /\ lag = LagIdle
    /\ redir = RedirIdle
    /\ hdrs = HdrsIdle
    /\ tunnel = TunnelIdle
    /\ proxy = ProxyIdle
    /\ threads = ThreadsIdle
    /\ enc = EncIdle
    /\ shut = ShutIdle
    /\ http = [pc |-> "run",
               parser |-> [r \in Resps |-> NewParser],
               on_headers |-> [r \in Resps |-> 0],
               post_request |-> [r \in Resps |-> 0],
               raised |-> [r \in Resps |-> "none"],
               redirect |-> [prior |-> None, next |-> None,
                             conn_available |-> FALSE]]

HttpOnly == UNCHANGED <<lag, redir, hdrs, tunnel, proxy, threads, enc, shut>>

\* HttpClient.request for a URL of key k: the one request of the caller, the
\* others are made again by the redirect hook.
HttpSend(k) ==
    /\ http.pc = "run"
    /\ UnusedResps(State) = Resps
    /\ \E t \in response(HttpState, k, "none") : HttpCommit(t)
    /\ HttpOnly

HttpConnectionMade(c) ==
    /\ http.pc = "run"
    /\ conn[c].st = "connecting"
    /\ HttpCommit(_connection_made(HttpState, c))
    /\ HttpOnly

\* Bytes arrive on a connection whose consumer has sent its request.
HttpDataReceived(c, data, h, to) ==
    /\ http.pc = "run"
    /\ conn[c].st = "open"
    /\ conn[c].consumer # None
    /\ resp[conn[c].consumer].st \in {"started", "headers", "complete"}
    /\ http.parser[conn[c].consumer].fed < MaxData
    /\ data \in Feedable(http.parser[conn[c].consumer])
    /\ \E t \in Connection_data_received(HttpState, c, data, h, to, "none") :
          HttpCommit(t)
    /\ HttpOnly

\* data_received is called on a consumer that is finished, after it was fed.
HttpDataAfterFinished(r, data, h) ==
    /\ http.pc = "run"
    /\ has_finished(State, r)
    /\ http.parser[r].fed \in 1..(MaxData - 1)
    /\ data \in Feedable(http.parser[r])
    /\ \E t \in HttpResponse_data_received(HttpState, r, data, h, None, "none") :
          HttpCommit(t)
    /\ HttpOnly

HttpNext ==
    \/ \E k \in Keys : HttpSend(k)
    \/ \E c \in Conns : HttpConnectionMade(c)
    \/ \E c \in Conns, data \in Data, h \in ConnectionHeaders,
          to \in Keys \cup {None} : HttpDataReceived(c, data, h, to)
    \/ \E r \in Resps, data \in Data, h \in ConnectionHeaders :
          HttpDataAfterFinished(r, data, h)

HttpSpec == HttpInit /\ [][HttpNext]_vars

\* C22: for every consumer the on_headers event fires at most once, however
\* many times data_received is called, and it has not fired while the parser
\* does not report the headers complete.
C22_HeadersOnce ==
    \A r \in Resps :
        /\ http.on_headers[r] <= 1
        /\ http.on_headers[r] = 1 => http.parser[r].headers_complete

\* The event fired once for a consumer that was fed as often as a consumer is:
\* parts before the headers or of the body went by without it.
C22_Witness ==
    \E r \in Resps :
        /\ http.on_headers[r] = 1
        /\ http.parser[r].fed = MaxData
        /\ ~http.parser[r].message_complete

\* C23 (as claimed): a data_received call on a finished consumer does not feed
\* the parser and leaves the consumer's status and headers as they are.
C23_CompleteIsTerminal ==
    [][\A r \in Resps :
          has_finished(State, r)
          => /\ http'.parser[r] = http.parser[r]
             /\ resp'[r].st = resp[r].st
             /\ resp'[r].hdr = resp[r].hdr]_vars

\* A call of data_received with a chunk the parser does not consume whole, on
\* the consumer attached to connection c, is made by this step.
Violates(c) ==
    /\ conn[c].consumer # None
    /\ InFlight(conn[c].consumer)
    /\ http'.parser[conn[c].consumer].fed = http.parser[conn[c].consumer].fed + 1
    /\ http'.parser[conn[c].consumer].refused

\* C24: when the parser consumes less than the chunk, data_received raises
\* ProtocolError and fires no event for the chunk (neither on_headers nor a
\* completion), the consumer is finished as failed and its connection is lost
\* in the same step, and no reconnection follows: _reconnect is neither called
\* nor scheduled, no connection is constructed and no consumer is started.
C24_ProtocolViolationFails ==
    [][\A c \in Conns :
          Violates(c)
          => LET r == conn[c].consumer
             IN /\ http'.raised[r] = "ProtocolError"
                /\ http'.on_headers[r] = http.on_headers[r]
                /\ resp'[r].st = "failed"
                /\ conn'[c].st = "closed"
                /\ reconnects' = reconnects
                /\ \A x \in Conns : ~Constructed(x)
                /\ \A x \in Resps : ~Dispatched(x)
                /\ \A x \in Resps : resp'[x].st = "started"
                                     => resp[x].st = "started"]_vars

\* A consumer failed on a chunk that completed its headers before the bytes
\* the parser refused: the headers are complete, the event never fired, the
\* connection is closed and nothing was reconnected.
C24_Witness ==
    \E r \in Resps :
        /\ http.raised[r] = "ProtocolError"
        /\ resp[r].st = "failed"
        /\ http.parser[r].headers_complete
        /\ http.on_headers[r] = 0
        /\ conn[resp[r].conn].st = "closed"
        /\ reconnects = {}

\* C25 (as claimed): whenever the parser of a consumer has reached
\* message-complete, the consumer is finished and its post_request event has
\* fired.
C25_MessageCompleteFinishes ==
    \A r \in Resps :
        http.parser[r].message_complete
        => has_finished(State, r) /\ http.post_request[r] >= 1

\* C26: when the redirect hook of a finishing response runs, the connection of
\* the response is not in the available set, and the request the hook
\* dispatches is not given that connection.
C26_RedirectBeforeRelease ==
    [][\A r1 \in Resps, r2 \in Resps :
          (Finishes(r1) /\ Dispatched(r2) /\ resp[r1].conn # None)
          => /\ http'.redirect = [prior |-> r1, next |-> r2,
                                  conn_available |-> FALSE]
             /\ resp'[r2].conn # resp[r1].conn]_vars

\* A response done with Connection: keep-alive redirected: its connection is
\* back in the available set now, and the request made again is in flight on
\* a connection of its own.
C26_Witness ==
    \E r1 \in Resps, r2 \in Resps :
        /\ http.redirect.prior = r1 /\ http.redirect.next = r2
        /\ resp[r1].st = "done" /\ resp[r1].hdr = "keep-alive"
        /\ resp[r1].conn \in available[connection_pools[resp[r1].key]]
        /\ resp[r2].conn # None /\ resp[r2].conn # resp[r1].conn
        /\ InFlight(r2)

\* ------------------------------------------------------------- threads
\* The client and its pools statement by statement, with the two locks: each
\* thread runs one method at a time and the threads interleave between
\* statements.
\* Method calls the threads make in all.
MaxCalls == 4

Threads == {1, 2}
\* Every call constructs at most one pool and at most one connection.
ThreadPools == 1..MaxCalls
ThreadConns == 1..MaxCalls

\* A thread inside no method.
IdleThread ==
    [pc |-> "idle", key |-> None, pool |-> None, c |-> None, stale |-> {},
     connection |-> None, reuse |-> FALSE, todo |-> {}, items |-> <<>>,
     before |-> <<FALSE, FALSE>>]

Goto(t, a, pc) == [t EXCEPT !.th[a].pc = pc]
Return(t, a) == [t EXCEPT !.th[a] = IdleThread]
ReturnRaising(t, a, exc) ==
    [t EXCEPT !.th[a] = IdleThread, !.raised = @ \cup {exc}]

\* Thread a holds the lock of some pool.
HoldsPoolLock(t, a) == \E p \in ThreadPools : t.pool_lock[p] = a

\* Faulty variant: the client's lock is not taken.
Client_lock_skipped(t, a) == {t}

\* `with self.lock:` of Client.get_connection: the thread waits for the lock.
Client_lock_enter(t, a) ==
    IF t.lock = None THEN {[t EXCEPT !.lock = a]} ELSE {}

Client_lock_exit(t, a) ==
    IF t.lock = a THEN [t EXCEPT !.lock = None] ELSE t

\* Faulty variant: the pool's lock is not taken.
pool_lock_skipped(t, a, p) == {t}

\* `with self.lock:` of the ConnectionPool methods.
pool_lock_enter(t, a, p) ==
    IF t.pool_lock[p] = None THEN {[t EXCEPT !.pool_lock[p] = a]} ELSE {}

pool_lock_exit(t, a, p) ==
    IF t.pool_lock[p] = a THEN [t EXCEPT !.pool_lock[p] = None] ELSE t

\* sc.transport.close(), by thread a: the model notes a close made while the
\* thread holds a pool lock.
transport_close_by(t, a, c) ==
    [t EXCEPT !.sock[c] = IF @ \in {"open", "stale"} THEN "closing" ELSE @,
              !.under_lock = @ \/ HoldsPoolLock(t, a)]

RECURSIVE close_all_by(_, _, _)
close_all_by(t, a, S) ==
    IF S = {} THEN t
    ELSE LET c == Min(S) IN close_all_by(transport_close_by(t, a, c), a, S \ {c})

\* Faulty variant: a stale connection is closed where it is found, in the loop.
stale_closed_in_loop(t, a, c) == transport_close_by(t, a, c)

\* `stale_connections.append(connection)`
stale_connections_append(t, a, c) == [t EXCEPT !.th[a].stale = @ \cup {c}]

\* Client.get_connection, the statements under the client's lock.
Client_get_connection(t, a) ==
    LET l == t.th[a]
    IN CASE l.pc = "gc_enter" ->
              {Goto(x, a, "gc_get") : x \in Client_lock_enter(t, a)}
         [] l.pc = "gc_get" ->
              LET p == t.connection_pools[l.key]
              IN {[t EXCEPT !.th[a].pool = p,
                            !.th[a].pc = IF p = None THEN "gc_new" ELSE "gc_exit"]}
         [] l.pc = "gc_new" ->
              {[t EXCEPT !.made = @ + 1,
                         !.created_for[t.made + 1] = l.key,
                         !.connection_pools[l.key] = t.made + 1,
                         !.th[a].pool = t.made + 1,
                         !.th[a].pc = "gc_exit"]}
         [] l.pc = "gc_exit" ->
              {Goto(Client_lock_exit(t, a), a, "goc_enter")}

\* The connection is handed to the caller of get_connection.
HandOut(t, a, c) ==
    Return([t EXCEPT !.held[c] = TRUE], a)

\* ConnectionPool.get_or_create_connection
ConnectionPool_get_or_create_connection(t, a) ==
    LET l == t.th[a]
        p == l.pool
    IN CASE l.pc = "goc_enter" ->
              {Goto(x, a, "goc_pop") : x \in pool_lock_enter(t, a, p)}
         [] l.pc = "goc_pop" ->
              IF t.available[p] = {}
              THEN {Goto(t, a, "goc_exit")}
              ELSE { LET t1 == [t EXCEPT !.available[p] = @ \ {c}]
                     IN IF t.sock[c] # "open"
                        THEN IF t.sock[c] = "stale"
                             THEN stale_connections_append(t1, a, c)
                             ELSE t1
                        ELSE [t1 EXCEPT !.th[a].connection = c,
                                        !.th[a].pc = "goc_add"]
                     : c \in t.available[p] }
         [] l.pc = "goc_add" ->
              {[t EXCEPT !.concurrent[p] = @ \cup {l.connection},
                         !.th[a].pc = "goc_exit"]}
         [] l.pc = "goc_exit" ->
              {Goto(pool_lock_exit(t, a, p), a, "goc_close")}
         [] l.pc = "goc_close" ->
              LET t1 == close_all_by(t, a, l.stale)
              IN IF l.connection = None THEN {Goto(t1, a, "goc_new")}
                 ELSE {HandOut(t1, a, l.connection)}
         [] l.pc = "goc_new" ->
              \* new_connection: the connection is counted as concurrent; its
              \* transport is taken as established when it is handed out
              LET c == Min({x \in ThreadConns : t.sock[x] = "free"})
              IN {HandOut([t EXCEPT !.sock[c] = "open", !.of[c] = p,
                                    !.concurrent[p] = @ \cup {c},
                                    !.under_lock = @ \/ HoldsPoolLock(t, a)],
                          a, c)}

\* ConnectionPool.release_connection
ConnectionPool_release_connection(t, a) ==
    LET l == t.th[a]
        p == t.of[l.c]
    IN CASE l.pc = "rel_enter" ->
              {Goto(x, a, "rel_discard") : x \in pool_lock_enter(t, a, p)}
         [] l.pc = "rel_discard" ->
              {[t EXCEPT !.concurrent[p] = @ \ {l.c}, !.th[a].pc = "rel_reuse"]}
         [] l.pc = "rel_reuse" ->
              {[t EXCEPT !.available[p] = IF l.reuse THEN @ \cup {l.c} ELSE @,
                         !.th[a].pc = "rel_exit"]}
         [] l.pc = "rel_exit" ->
              {Return(pool_lock_exit(t, a, p), a)}

\* Whether connection c is in the concurrent set and in the available set.
Membership(t, c) ==
    <<c \in t.concurrent[t.of[c]], c \in t.available[t.of[c]]>>

\* ConnectionPool._remove_connection
ConnectionPool_remove_connection(t, a) ==
    LET l == t.th[a]
        p == t.of[l.c]
    IN CASE l.pc = "rm_enter" ->
              {[x EXCEPT !.th[a].pc = "rm_concurrent",
                         !.th[a].before = Membership(x, l.c)]
                 : x \in pool_lock_enter(t, a, p)}
         [] l.pc = "rm_concurrent" ->
              {[t EXCEPT !.concurrent[p] = @ \ {l.c}, !.th[a].pc = "rm_available"]}
         [] l.pc = "rm_available" ->
              {[t EXCEPT !.available[p] = @ \ {l.c}, !.th[a].pc = "rm_exit"]}
         [] l.pc = "rm_exit" ->
              {Return(pool_lock_exit(t, a, p), a)}

\* The keys of the mapping.
MappedKeys(t) == {k \in Keys : t.connection_pools[k] # None}

\* The outcomes of one more step of an iteration over the mapping begun when
\* its entries were l.items: a dictionary that changed size since makes the
\* iteration of a view raise RuntimeError, the iteration of a list that was
\* copied goes on over the entries as they were.
Iterating(t, a, on) ==
    IF MappedKeys(t) # {k \in Keys : t.th[a].items[k] # None}
    THEN {ReturnRaising(t, a, "RuntimeError"), on}
    ELSE {on}

\* Client.remove_pool: no lock is taken.
Client_remove_pool(t, a) ==
    LET l == t.th[a]
    IN CASE l.pc = "rp_iter" ->
              IF l.todo = {}
              THEN {Goto(t, a, "rp_pop")}
              ELSE UNION { Iterating(t, a,
                              [t EXCEPT !.th[a].key = k,
                                        !.th[a].todo = @ \ {k},
                                        !.th[a].pc = IF l.items[k] = l.pool
                                                     THEN "rp_pop" ELSE "rp_iter"])
                           : k \in l.todo }
         [] l.pc = "rp_pop" ->
              IF l.key = None THEN {Return(t, a)}
              ELSE IF t.connection_pools[l.key] = None
              THEN {ReturnRaising(t, a, "KeyError")}
              ELSE {Return([t EXCEPT !.connection_pools[l.key] = None], a)}

\* The connections pool p holds.
ConnsOf(t, p) == {c \in ThreadConns : t.of[c] = p /\ t.sock[c] # "free"}

\* Client.close_connections: no lock is taken; each pool of the mapping closes
\* the transports of its connections.
Client_close_connections(t, a) ==
    LET l == t.th[a]
    IN IF l.todo = {}
       THEN {Return(t, a)}
       ELSE UNION { Iterating(t, a,
                       [close_all_by(t, a, ConnsOf(t, l.items[k]))
                           EXCEPT !.th[a].todo = @ \ {k}])
                    : k \in l.todo }

ThreadsInit ==
    /\ ClientInit
    /\ lag = LagIdle
    /\ redir = RedirIdle
    /\ hdrs = HdrsIdle
    /\ tunnel = TunnelIdle
    /\ proxy = ProxyIdle
    /\ http = HttpIdle
    /\ enc = EncIdle
    /\ shut = ShutIdle
    /\ threads = [pc |-> "run",
                  lock |-> None,
                  pool_lock |-> [p \in ThreadPools |-> None],
                  connection_pools |-> [k \in Keys |-> None],
                  made |-> 0,
                  created_for |-> [p \in ThreadPools |-> None],
                  calls |-> 0,
                  raised |-> {},
                  available |-> [p \in ThreadPools |-> {}],
                  concurrent |-> [p \in ThreadPools |-> {}],
                  sock |-> [c \in ThreadConns |-> "free"],
                  of |-> [c \in ThreadConns |-> None],
                  held |-> [c \in ThreadConns |-> FALSE],
                  under_lock |-> FALSE,
                  th |-> [a \in Threads |-> IdleThread]]

ThreadsOnly == UNCHANGED <<client_vars, lag, redir, hdrs, tunnel, proxy, http, enc, shut>>

\* Thread a is free to make a call.
Idle(a) ==
    /\ threads.pc = "run"
    /\ threads.th[a].pc = "idle"
    /\ threads.calls < MaxCalls

\* Thread a calls get_connection for a request of key k.
CallGetConnection(a, k) ==
    /\ Idle(a)
    /\ threads' = [threads EXCEPT !.calls = @ + 1, !.th[a] =
                      [IdleThread EXCEPT !.pc = "gc_enter", !.key = k]]
    /\ ThreadsOnly

\* Thread a finishes the response that holds connection c: reuse is what
\* can_reuse_connection gives for it.
CallReleaseConnection(a, c, reuse) ==
    /\ Idle(a)
    /\ threads.held[c]
    /\ threads' = [threads EXCEPT !.calls = @ + 1, !.held[c] = FALSE,
                                  !.th[a] = [IdleThread EXCEPT !.pc = "rel_enter",
                                                               !.c = c,
                                                               !.reuse = reuse]]
    /\ ThreadsOnly

\* Thread a reports connection c lost: its transport is closed and the
\* connection_lost event calls _remove_connection.
CallRemoveConnection(a, c) ==
    /\ Idle(a)
    /\ threads.sock[c] \in {"open", "stale", "closing"}
    /\ threads' = [threads EXCEPT !.calls = @ + 1, !.sock[c] = "closed",
                                  !.th[a] = [IdleThread EXCEPT !.pc = "rm_enter",
                                                               !.c = c]]
    /\ ThreadsOnly

\* Thread a calls remove_pool with a pool that was constructed.
CallRemovePool(a, p) ==
    /\ Idle(a)
    /\ p <= threads.made
    /\ threads' = [threads EXCEPT !.calls = @ + 1, !.th[a] =
                      [IdleThread EXCEPT !.pc = "rp_iter", !.pool = p,
                                         !.items = threads.connection_pools,
                                         !.todo = MappedKeys(threads)]]
    /\ ThreadsOnly

\* Thread a calls close_connections.
CallCloseConnections(a) ==
    /\ Idle(a)
    /\ MappedKeys(threads) # {}
    /\ threads' = [threads EXCEPT !.calls = @ + 1, !.th[a] =
                      [IdleThread EXCEPT !.pc = "cc_iter",
                                         !.items = threads.connection_pools,
                                         !.todo = MappedKeys(threads)]]
    /\ ThreadsOnly

\* The next statement of the method thread a is in.
Statement(t, a) ==
    LET pc == t.th[a].pc
    IN CASE pc \in {"gc_enter", "gc_get", "gc_new", "gc_exit"} ->
              Client_get_connection(t, a)
         [] pc \in {"goc_enter", "goc_pop", "goc_add", "goc_exit", "goc_close",
                    "goc_new"} ->
              ConnectionPool_get_or_create_connection(t, a)
         [] pc \in {"rel_enter", "rel_discard", "rel_reuse", "rel_exit"} ->
              ConnectionPool_release_connection(t, a)
         [] pc \in {"rm_enter", "rm_concurrent", "rm_available", "rm_exit"} ->
              ConnectionPool_remove_connection(t, a)
         [] pc \in {"rp_iter", "rp_pop"} -> Client_remove_pool(t, a)
         [] pc = "cc_iter" -> Client_close_connections(t, a)

Step(a) ==
    /\ threads.pc = "run"
    /\ threads.th[a].pc # "idle"
    /\ \E t \in Statement(threads, a) : threads' = t
    /\ ThreadsOnly

\* The peer closes the socket of a connection.
ThreadPeerClosed(c) ==
    /\ threads.pc = "run"
    /\ threads.sock[c] = "open"
    /\ threads' = [threads EXCEPT !.sock[c] = "stale"]
    /\ ThreadsOnly

ThreadsNext ==
    \/ \E a \in Threads, k \in Keys : CallGetConnection(a, k)
    \/ \E a \in Threads, c \in ThreadConns, reuse \in BOOLEAN :
          CallReleaseConnection(a, c, reuse)
    \/ \E a \in Threads, c \in ThreadConns : CallRemoveConnection(a, c)
    \/ \E a \in Threads, p \in ThreadPools : CallRemovePool(a, p)
    \/ \E a \in Threads : CallCloseConnections(a)
    \/ \E a \in Threads : Step(a)
    \/ \E c \in ThreadConns : ThreadPeerClosed(c)

ThreadsSpec == ThreadsInit /\ [][ThreadsNext]_vars

\* Thread a is inside get_connection, with the pool that serves its request.
Served(a) ==
    /\ threads.th[a].pc \in {"gc_exit", "goc_enter", "goc_pop", "goc_add",
                             "goc_exit", "goc_close", "goc_new"}
    /\ threads.th[a].pool # None

Removing(a) == threads.th[a].pc \in {"rm_concurrent", "rm_available", "rm_exit"}

\* Thread b is inside a locked section of the pool of connection c.
InLockedSection(b, c) ==
    \/ /\ threads.th[b].pc \in {"rel_discard", "rel_reuse", "rel_exit",
                                "rm_concurrent", "rm_available", "rm_exit"}
       /\ threads.of[threads.th[b].c] = threads.of[c]
    \/ /\ threads.th[b].pc \in {"goc_pop", "goc_add", "goc_exit"}
       /\ threads.th[b].pool = threads.of[c]

\* C28: a thread removing a closed connection holds the lock of its pool from
\* before the first discard until after the second, and no other thread is
\* inside a locked section of that pool meanwhile; at every moment of the
\* removal the sets show the connection as they did before it or as they do
\* after it, never removed from one set and still in the other; and when
\* _remove_connection returns the connection is in neither set.
C28_AtomicRemoval ==
    /\ [](\A a \in Threads :
            Removing(a)
            => /\ threads.pool_lock[threads.of[threads.th[a].c]] = a
               /\ \A b \in Threads \ {a} : ~InLockedSection(b, threads.th[a].c)
               /\ Membership(threads, threads.th[a].c)
                     \in {threads.th[a].before, <<FALSE, FALSE>>})
    /\ [][\A a \in Threads :
            (threads.th[a].pc = "rm_exit" /\ threads'.th[a].pc = "idle")
            => Membership(threads', threads.th[a].c) = <<FALSE, FALSE>>]_vars

\* A connection that was in use is half-way through its removal (out of the
\* concurrent set, the discard from the available set still to come) while the
\* other thread waits for the lock to release that same connection.
C28_Witness ==
    \E a \in Threads, b \in Threads :
        /\ threads.th[a].pc = "rm_available"
        /\ threads.th[a].before = <<TRUE, FALSE>>
        /\ threads.th[b].pc = "rel_enter"
        /\ threads.th[b].c = threads.th[a].c

\* C29: a thread holds a pool lock only between the statements that read and
\* change the available and concurrent sets; the transports of the stale
\* connections are closed, and a connection is constructed, by a thread that
\* holds no pool lock.
C29_LockOnlyForBookkeeping ==
    /\ ~threads.under_lock
    /\ \A a \in Threads :
          /\ threads.th[a].pc \in {"goc_close", "goc_new"}
             => ~HoldsPoolLock(threads, a)
          /\ HoldsPoolLock(threads, a)
             => threads.th[a].pc \in {"goc_pop", "goc_add", "goc_exit",
                                      "rel_discard", "rel_reuse", "rel_exit",
                                      "rm_concurrent", "rm_available", "rm_exit"}

\* A thread has closed the transport of the stale connection it popped and is
\* about to construct a connection, while the lock of the pool is free.
C29_Witness ==
    \E a \in Threads, c \in ThreadConns :
        /\ threads.th[a].pc = "goc_new"
        /\ c \in threads.th[a].stale
        /\ threads.sock[c] = "closing"
        /\ threads.pool_lock[threads.th[a].pool] = None

\* C30 (as claimed): a thread that reads, changes or walks through the
\* key-to-pool mapping holds the client's lock.
C30_MappingUnderLock ==
    \A a \in Threads :
        threads.th[a].pc \in {"gc_get", "gc_new", "rp_iter", "rp_pop", "cc_iter"}
        => threads.lock = a

\* C37 (as claimed): a statement of remove_pool(pool), run while no other
\* thread is inside a method and the mapping is as it was when the call began,
\* changes no entry of the mapping but one that holds the given pool; when no
\* entry holds it the mapping stays as it is.
C37_RemovesOnlyGivenPool ==
    [][\A a \in Threads :
          (/\ threads.pc = "run"
           /\ threads.th[a].pc \in {"rp_iter", "rp_pop"}
           /\ threads'.th[a] # threads.th[a]
           /\ \A b \in Threads \ {a} : threads.th[b].pc = "idle"
           /\ threads.th[a].items = threads.connection_pools)
          => \A k \in Keys :
                threads'.connection_pools[k] # threads.connection_pools[k]
                => threads.connection_pools[k] = threads.th[a].pool]_vars

\* ------------------------------------------------------------- HttpRequest.encode
\* The most parameters a query string or a payload holds.
MaxPairs == 2
\* The times one request descriptor is encoded.
MaxEncodes == 2

\* Parameters as they are written in a query string; "c=" has a blank value.
Params == {"a=1", "b=2", "c="}
ParamSeqs == UNION {[1..n -> Params] : n \in 0..MaxPairs}

RequestMethods == {"GET", "POST", "CONNECT"}
\* The methods whose payload goes into the url.
ENCODE_URL_METHODS == {"DELETE", "GET", "HEAD", "OPTIONS"}

\* The payloads a request is built with: none (an empty dict), bytes, a string,
\* or a mapping given as its pairs.
Payloads ==
    {[kind |-> "none", v |-> << >>]}
        \cup {[kind |-> k, v |-> v] : k \in {"bytes", "str", "pairs"},
                                      v \in ParamSeqs}

\* No body.
NoBody == [kind |-> "none", v |-> << >>]

\* Python's truth value of a payload.
truthy(data) == data.v # << >>

\* parse_qsl: the pairs of a query string; pairs with a blank value are dropped.
parse_qsl(str) == SelectSeq(str, LAMBDA pair : pair # "c=")

\* urlencode: the query string of a list of pairs, every pair written out.
urlencode(pairs) == pairs

\* HttpRequest._encode_url
_encode_url(request, body) ==
    IF truthy(body)
    THEN LET pairs == IF body.kind \in {"bytes", "str"} THEN parse_qsl(body.v)
                      ELSE body.v
             query == parse_qsl(request.query) \o pairs
         IN [request EXCEPT !.data = [kind |-> "pairs", v |-> query],
                            !.query = urlencode(query)]
    ELSE request

\* HttpRequest.encode_body: the descriptor it leaves and the body it returns.
encode_body(request) ==
    IF request.method \in ENCODE_URL_METHODS
    THEN [request |-> _encode_url(request, request.data), body |-> NoBody]
    ELSE IF request.data.kind \in {"bytes", "str"}
    THEN [request |-> request, body |-> [kind |-> "bytes", v |-> request.data.v]]
    ELSE IF truthy(request.data)
    THEN IF request.headers.content_type = "none"
         THEN [request |-> [request EXCEPT !.headers.content_type = "form"],
               body |-> [kind |-> "form", v |-> request.data.v]]
         ELSE [request |-> request,
               body |-> [kind |-> "json", v |-> request.data.v]]
    ELSE [request |-> request, body |-> NoBody]

\* HttpRequest.first_line
first_line(request) == <<request.method, request.query>>

\* The bytes of CONNECT: b''.
EmptyBytes == [empty |-> TRUE]

\* HttpRequest.encode: the descriptor it leaves and the bytes it returns.
encode(request) ==
    IF request.method = "CONNECT"
    THEN [request |-> request, bytes |-> EmptyBytes]
    ELSE LET e == encode_body(request)
             r1 == [e.request EXCEPT !.body = e.body]
             line == first_line(r1)
             r2 == IF truthy(e.body)
                   THEN [r1 EXCEPT !.headers.content_length = Len(e.body.v),
                                   !.headers.expect = @ \/ r1.wait_continue]
                   ELSE r1
             sent == IF truthy(e.body) /\ ~r1.wait_continue THEN e.body ELSE NoBody
         IN [request |-> r2,
             bytes |-> [empty |-> FALSE, first_line |-> line,
                        headers |-> r2.headers, body |-> sent]]

\* A descriptor as HttpRequest.__init__ leaves it, and nothing encoded yet.
EncInit ==
    /\ ClientInit
    /\ lag = LagIdle
    /\ redir = RedirIdle
    /\ hdrs = HdrsIdle
    /\ tunnel = TunnelIdle
    /\ proxy = ProxyIdle
    /\ http = HttpIdle
    /\ threads = ThreadsIdle
    /\ shut = ShutIdle
    /\ \E method \in RequestMethods, query \in ParamSeqs, data \in Payloads,
          content_type \in {"none", "application/json"}, wait_continue \in BOOLEAN :
          LET request == [method |-> method, query |-> query, data |-> data,
                          body |-> NoBody, wait_continue |-> wait_continue,
                          headers |-> [content_type |-> content_type,
                                       content_length |-> 0, expect |-> FALSE]]
          IN enc = [pc |-> "run", request |-> request, before |-> request,
                    wire |-> << >>]

\* HttpResponse.start_request encodes the descriptor of its request: the first
\* attempt, and each attempt made again with the same descriptor.
StartRequest ==
    /\ enc.pc = "run"
    /\ Len(enc.wire) < MaxEncodes
    /\ LET e == encode(enc.request)
       IN enc' = [enc EXCEPT !.before = enc.request, !.request = e.request,
                             !.wire = Append(@, e.bytes)]
    /\ UNCHANGED <<client_vars, lag, redir, hdrs, tunnel, proxy, http, threads, shut>>

EncNext == StartRequest

EncSpec == EncInit /\ [][EncNext]_vars

\* C32 (as claimed): after encode() the query, the data and the headers of the
\* descriptor are what they were before it, and every attempt made with the
\* same descriptor puts the same bytes on the wire as the first.
C32_EncodeLeavesDescriptor ==
    (enc.pc = "run" /\ enc.wire # << >>) =>
        /\ enc.request.query = enc.before.query
        /\ enc.request.data = enc.before.data
        /\ enc.request.headers = enc.before.headers
        /\ \A i \in 1..Len(enc.wire) : enc.wire[i] = enc.wire[1]

\* ------------------------------------------------------------- close and abort
\* ConnectionProducer.close_connections(async=False): the sockets are closed at
\* once, with what is left in their buffers, and each connection is reported
\* lost there and then.
RECURSIVE abort_all(_, _)
abort_all(s, S) ==
    IF S = {} THEN s
    ELSE LET c == Min(S) IN abort_all(connection_lost(s, c, "other"), S \ {c})

\* Client.abort: close(async=False). The close deferred has nothing left to
\* wait for and fires `finish`.
abort(s) ==
    IF ~s.closed
    THEN LET s1 == [s EXCEPT !.closed = TRUE]
             s2 == abort_all(s1, {c \in PooledConns(s1) : has_sock(s1, c)})
         IN [s2 EXCEPT !.finish = TRUE]
    ELSE s

\* The client with callers that close and abort it at any time, any number of
\* times: last is the call made last, repeated whether it found the client
\* closed, tick changes with every call.
ShutInit ==
    /\ ClientInit
    /\ lag = LagIdle
    /\ redir = RedirIdle
    /\ hdrs = HdrsIdle
    /\ tunnel = TunnelIdle
    /\ proxy = ProxyIdle
    /\ http = HttpIdle
    /\ threads = ThreadsIdle
    /\ enc = EncIdle
    /\ shut = [pc |-> "run", last |-> "none", repeated |-> FALSE, tick |-> FALSE]

ShutOnly == UNCHANGED <<lag, redir, hdrs, tunnel, proxy, http, threads, enc>>

\* A caller calls close().
CloseCall ==
    /\ shut.pc = "run"
    /\ Commit(close(State))
    /\ shut' = [shut EXCEPT !.last = "close", !.repeated = closed, !.tick = ~@]
    /\ ShutOnly

\* A caller calls abort().
AbortCall ==
    /\ shut.pc = "run"
    /\ Commit(abort(State))
    /\ shut' = [shut EXCEPT !.last = "abort", !.repeated = closed, !.tick = ~@]
    /\ ShutOnly

\* Requests are dispatched and answered and connections are lost as in Spec;
\* nothing is made to raise in the dispatch.
ShutNext ==
    \/ \E k \in Keys : Request(k, "none")
    \/ \E c \in Conns : ConnectionMade(c)
    \/ \E c \in Conns, chunk \in Chunks, h \in ConnectionHeaders :
          DataReceived(c, chunk, h)
    \/ \E c \in Conns : ConnectionLost(c, "other")
    \/ CloseTimeout
    \/ CloseCall
    \/ AbortCall

ShutSpec == ShutInit /\ [][ShutNext]_vars

\* C33 (as claimed): whatever the state of the client when abort() is called,
\* no connection of a pool of the mapping is left with its socket open or
\* draining when the call returns.
C33_AbortClosesAll ==
    [][(shut'.tick # shut.tick /\ shut'.last = "abort")
       => \A c \in PooledConns(State) :
             conn'[c].st \notin {"open", "stale", "closing"}]_vars

\* C39: a close() that finds the client closed changes nothing: no transport
\* is closed, the close deferred waits for what it waited for and no timeout is
\* armed; once `finish` has fired the client is closed, the close deferred
\* waits for nothing and no timeout is armed, so nothing is left that fires it
\* again; and `finish`, once fired, stays fired.
C39_CloseIdempotent ==
    /\ [][(shut'.tick # shut.tick /\ shut'.last = "close" /\ closed)
          => UNCHANGED client_vars]_vars
    /\ [](finish => (closed /\ close_wait = {} /\ ~close_timer))
    /\ [][finish => finish']_vars

\* close() was called again while the first close still waited for a
\* connection to finish closing, with its timeout armed.
C39_Witness ==
    /\ shut.pc = "run"
    /\ shut.last = "close"
    /\ shut.repeated
    /\ close_wait # {}
    /\ close_timer
    /\ ~finish

\* ------------------------------------------------------------- proxy response
\* C34 (as claimed): for a CONNECT request the response is started with 200
\* only once the connection to the target is made, and at most once; and
\* neither connection has a forwarding consumer, nor is a byte passed on in
\* either direction, before the response was started with 200.
C34_TunnelOrder ==
    (tunnel.pc = "run" /\ tunnel.method = "CONNECT") =>
        /\ tunnel.status = "200" => tunnel.up \in {"open", "eof", "closed"}
        /\ tunnel.starts <= 1
        /\ (\/ tunnel.down_consumer = "DownStreamTunnel"
            \/ tunnel.up_consumer = "UpstreamTunnel"
            \/ tunnel.raised # "none"
            \/ tunnel.up_out # << >>
            \/ tunnel.down_out # << >>)
           => tunnel.status = "200"

\* C38 (as claimed): what the iteration over the response has yielded is the
\* beginning of what was put on the queue, in the same order, and once the
\* iteration has ended it is all of it: nothing is left on the queue.
C38_QueueDrained ==
    tunnel.pc = "run" =>
        /\ Len(tunnel.yielded) <= Len(tunnel.puts)
        /\ tunnel.yielded = SubSeq(tunnel.puts, 1, Len(tunnel.yielded))
        /\ tunnel.iter = "stopped"
           => (tunnel.yielded = tunnel.puts /\ tunnel.queue = << >>)

\* ------------------------------------------------------------- handed out
\* C31: whatever the state of the client and whatever the key asked for, a
\* connection that get_or_create_connection returns, taken from the available
\* set or constructed, is in the concurrent set of the pool in the state the
\* call leaves; and a connection taken from the available set is no longer in
\* that set.
C31_ReturnedIsConcurrent ==
    \A k \in Keys :
        (connection_pools[k] # None \/ UnusedPools(State) # {})
        => \A g \in get_connection(State, k) :
              g.connection # None
              => /\ g.connection \in g.s.co[g.s.pools[k]]
                 /\ g.connection \notin g.s.av[g.s.pools[k]]

\* A request has just been started on a connection taken from the available
\* set, where an earlier response had left it: the connection is in the
\* concurrent set of its pool again.
C31_Witness ==
    \E r1 \in Resps, r2 \in Resps, c \in Conns :
        /\ r1 # r2
        /\ resp[r1].st = "done" /\ resp[r1].conn = c
        /\ resp[r2].st = "started" /\ resp[r2].conn = c
        /\ conn[c].consumer = r2
        /\ c \in concurrent[connection_pools[resp[r2].key]]

\* ------------------------------------------------------------- releases repeated
\* release_response_connection runs again for a response that has finished:
\* post_request is one of the MANY_TIMES_EVENTS, and again() chains the
\* post_request event of the new response to the response it was made from.
Rerelease(r) ==
    /\ has_finished(State, r)
    /\ resp[r].conn # None
    /\ Commit(release_response_connection(State, r))
    /\ UNCHANGED aux

ReleaseNext == Next \/ \E r \in Resps : Rerelease(r)

ReleaseSpec == Init /\ [][ReleaseNext]_vars

PoolRequest(k) ==
    /\ connection_pools[k] # None \/ UnusedPools(State) # {}
    /\ Request(k, "none")

\* The program calls remove_pool with a pool the client built.
RemovePool(p) ==
    /\ pool_max[p] # 0
    /\ \E t \in remove_pool(State, p) : Commit(t)
    /\ UNCHANGED aux

PoolsNext ==
    \/ \E k \in Keys : PoolRequest(k)
    \/ \E c \in Conns : ConnectionMade(c)
    \/ \E c \in Conns, chunk \in Chunks, h \in ConnectionHeaders :
          DataReceived(c, chunk, h)
    \/ \E c \in Conns : PeerClosed(c)
    \/ \E c \in Conns, exc \in Excs : ConnectionLost(c, exc)
    \/ \E p \in Pools : RemovePool(p)

PoolsSpec == Init /\ [][PoolsNext]_vars

\* C40 (as claimed): the step that finishes a response leaves its connection
\* outside the concurrent set of the connection's pool, and with no request
\* under way every concurrent set is empty, pools taken out of the mapping
\* included.
C40_NoConcurrentLeak ==
    /\ [][\A r \in Resps :
            (Finishes(r) /\ resp'[r].conn # None)
            => resp'[r].conn \notin concurrent'[conn'[resp'[r].conn].pool]]_vars
    /\ []((\A r \in Resps : ~InFlight(r))
          => \A p \in Pools : concurrent[p] = {})

====
